---------------------------- MODULE Spec2Model ----------------------------
(***************************************************************************)
(* Majordomo concierge: router, orchestration graph, specialist agents     *)
(* (Oracle, Scribe, Sentinel), tool registry and the home-state cache.     *)
(* Text is modelled by TLA+ strings; Python's `in`, lower() and strip()    *)
(* are computed character by character.                                    *)
(***************************************************************************)
EXTENDS Naturals, Integers, Sequences, FiniteSets, TLC

VARIABLES
    registry,   \* src/tools/__init__.py TOOL_REGISTRY: the registered tool names
    _STATE,     \* src/memory/state_cache.py _STATE: user id -> home-state dict
    journal,    \* src/memory/db.py journal_entries: the rows, in insertion order
    archivist,  \* whether Scribe was built with an Archivist (deployment/app.py) or not (src/adk_app.py)
    events,     \* the events the calendar collaborator has created
    sessions,   \* deployment/app.py app.state.sessions: session key -> list of turns
    call        \* slot -> frame of the call running there (arguments, locals, result)

vars == <<registry, _STATE, journal, archivist, events, sessions, call>>

---------------------------------------------------------------------------
(* Bounds of the model *)

\* most fragments concatenated into one routed message
MaxFrags == 2

\* most entries a search tool returns in one call
MaxResults == 2

\* most users with a stored home state when a Sentinel call begins
MaxStoredUsers == 1

---------------------------------------------------------------------------
(* Python string primitives *)

\* the letters str.lower() folds: the ASCII ones and, of the others, \u00c4 / \u00e4
UpperAlpha == "ABCDEFGHIJKLMNOPQRSTUVWXYZÄ"
LowerAlpha == "abcdefghijklmnopqrstuvwxyzä"

CharAt(s, i) == SubSeq(s, i, i)

\* the fold as a table from each upper-case letter to its lower-case one
LowerTable ==
    [c \in { CharAt(UpperAlpha, i) : i \in 1..Len(UpperAlpha) } |->
        CharAt(LowerAlpha, CHOOSE i \in 1..Len(UpperAlpha) : CharAt(UpperAlpha, i) = c)]

\* str.lower() on one character
LowerChar(c) == IF c \in DOMAIN LowerTable THEN LowerTable[c] ELSE c

RECURSIVE Lower(_)
\* str.lower(): every character folded, the two halves of the string in turn
Lower(s) ==
    IF Len(s) = 0 THEN ""
    ELSE IF Len(s) = 1 THEN LowerChar(s)
    ELSE Lower(SubSeq(s, 1, Len(s) \div 2)) \o Lower(SubSeq(s, Len(s) \div 2 + 1, Len(s)))

IsSpace(c) == c = " " \/ c = "\n" \/ c = "\t"

RECURSIVE LStrip(_)
LStrip(s) ==
    IF Len(s) > 0 /\ IsSpace(CharAt(s, 1)) THEN LStrip(SubSeq(s, 2, Len(s))) ELSE s

RECURSIVE RStrip(_)
RStrip(s) ==
    IF Len(s) > 0 /\ IsSpace(CharAt(s, Len(s))) THEN RStrip(SubSeq(s, 1, Len(s) - 1)) ELSE s

\* str.strip()
Strip(s) == RStrip(LStrip(s))

\* Python `p in t`
Contains(t, p) ==
    \E i \in 1..(Len(t) + 1) :
        /\ i + Len(p) - 1 <= Len(t)
        /\ SubSeq(t, i, i + Len(p) - 1) = p

\* any(kw in text for kw in kws)
AnyIn(kws, text) == \E kw \in kws : Contains(text, kw)

\* str.startswith
StartsWith(t, p) == Len(p) <= Len(t) /\ SubSeq(t, 1, Len(p)) = p

---------------------------------------------------------------------------
(* Router: src/orchestration/router.py *)

scheduling_phrases ==
    { "add to my calendar", "add this to my calendar", "put this in my calendar",
      "put it in my calendar", "schedule", "schedule in", "schedule this",
      "book in", "set a reminder", "remind me", "create an event", "create event" }

journal_phrases ==
    { "journal", "diary", "note to self", "log this", "write this down",
      "record this", "remember that" }

calendar_verbs == { "add", "put", "schedule", "create", "remind" }

home_keywords ==
    { "lights", "light on", "light off", "thermostat", "heating", "temperature",
      "aircon", "smart plug", "lock the door", "unlock the door", "front door",
      "garage door" }

knowledge_triggers ==
    { "who ", "what ", "when ", "where ", "why ", "how ", "latest", "news",
      "update", "price", "score", "result", "weather", "population",
      "definition", "meaning", "history", "information", "info" }

\* text = user_message.lower().strip()
RouteText(user_message) == Strip(Lower(user_message))

CalendarVerbRule(text) == Contains(text, "calendar") /\ AnyIn(calendar_verbs, text)
SchedulingRule(text)   == AnyIn(scheduling_phrases, text)
JournalRule(text)      == AnyIn(journal_phrases, text)
HomeRule(text)         == AnyIn(home_keywords, text)
KnowledgeRule(text)    == Contains(text, "?") \/ AnyIn(knowledge_triggers, text)

Decision(f, why) == [flow |-> f, reason |-> why]

\* a router that tests the knowledge triggers before the home keywords
route_knowledge_first(user_message) ==
    LET text == RouteText(user_message) IN
    IF CalendarVerbRule(text) THEN Decision("journal", "calendar + scheduling verb")
    ELSE IF SchedulingRule(text) THEN Decision("journal", "scheduling/reminder intent")
    ELSE IF JournalRule(text) THEN Decision("journal", "journal/diary intent")
    ELSE IF KnowledgeRule(text) THEN Decision("knowledge", "question/information intent")
    ELSE IF HomeRule(text) THEN Decision("home", "home/IoT-related intent")
    ELSE Decision("general", "default")

\* a router that tests the knowledge triggers first of all
route_knowledge_top(user_message) ==
    LET text == RouteText(user_message) IN
    IF KnowledgeRule(text) THEN Decision("knowledge", "question/information intent")
    ELSE IF CalendarVerbRule(text) THEN Decision("journal", "calendar + scheduling verb")
    ELSE IF SchedulingRule(text) THEN Decision("journal", "scheduling/reminder intent")
    ELSE IF JournalRule(text) THEN Decision("journal", "journal/diary intent")
    ELSE IF HomeRule(text) THEN Decision("home", "home/IoT-related intent")
    ELSE Decision("general", "default")

route(user_message) ==
    LET text == RouteText(user_message) IN
    IF CalendarVerbRule(text) THEN Decision("journal", "calendar + scheduling verb")
    ELSE IF SchedulingRule(text) THEN Decision("journal", "scheduling/reminder intent")
    ELSE IF JournalRule(text) THEN Decision("journal", "journal/diary intent")
    ELSE IF HomeRule(text) THEN Decision("home", "home/IoT-related intent")
    ELSE IF KnowledgeRule(text) THEN Decision("knowledge", "question/information intent")
    ELSE Decision("general", "default")

---------------------------------------------------------------------------
(* Inputs of the router specification *)

\* the messages of tests/unit/test_router.py and of the design notes, and a few that
\* satisfy several rules at once
RouterExampleMessages ==
    { "Log: this is a diary entry", "note: remember to breathe",
      "What have I been saying about work lately?", "Show me patterns in my notes",
      "Turn the lights off and lock the door.", "Who was Ada Lovelace?",
      "add this to my calendar", "remind me who won the game",
      "Add the latest price list to my calendar?",
      "put the lights schedule in my calendar",
      "Are the lights on?", "Tell me who" }

Fragments ==
    { "calendar ", "Add ", "put ", "schedule ", "create ", "remind ", "remind me ",
      "diary ", "Log: ", "note: ", "lights ", "lock the door ", "who ", "price ",
      "?", "hello ", "tea " }

RECURSIVE Concats(_)
Concats(n) ==
    IF n = 0 THEN { "" }
    ELSE LET shorter == Concats(n - 1) IN
         shorter \cup { m \o f : m \in shorter, f \in Fragments }

RouteMessages == RouterExampleMessages \cup Concats(MaxFrags)

---------------------------------------------------------------------------
(* Oracle heuristics: src/agents/oracle.py *)

TIME_SENSITIVE_KEYWORDS ==
    { "today", "yesterday", "this week", "this weekend", "this month", "this year",
      "latest", "recent", "recently", "right now", "currently", "breaking", "news",
      "update" }

DOMAIN_KEYWORDS ==
    { "stock", "share price", "price", "market", "rate", "interest rate", "inflation",
      "weather", "forecast", "election", "covid", "war", "conflict" }

SPORTS_RESULT_KEYWORDS ==
    { "score", "final score", "winning margin", "won by", "who won",
      "what was the score", "result of the match", "result of the game",
      "full-time score", "ft score", "match result", "game result" }

relative_phrases ==
    { "last week", "last weekend", "last month", "last year", "this week",
      "this month", "this year", "tonight", "this evening", "this morning",
      "earlier today" }

Digits == "0123456789"
IsDigit(c) == \E i \in 1..Len(Digits) : CharAt(Digits, i) = c
IsLetter(c) ==
    \E i \in 1..Len(LowerAlpha) : CharAt(LowerAlpha, i) = c \/ CharAt(UpperAlpha, i) = c
\* the regular expression class \w
IsWordChar(c) == IsDigit(c) \/ IsLetter(c) \/ c = "_"

\* the year pattern without its word boundaries
RecentYearSearch_unanchored(lower) ==
    \E i \in 1..Len(lower) :
        /\ i + 3 <= Len(lower)
        /\ CharAt(lower, i) = "2"
        /\ CharAt(lower, i + 1) = "0"
        /\ CharAt(lower, i + 2) \in { "1", "2", "3", "4" }
        /\ IsDigit(CharAt(lower, i + 3))

\* RECENT_YEAR_PATTERN = \b(20[1-4]\d|2024|2025)\b, as re.search applies it
RecentYearSearch(lower) ==
    \E i \in 1..Len(lower) :
        /\ i + 3 <= Len(lower)
        /\ CharAt(lower, i) = "2"
        /\ CharAt(lower, i + 1) = "0"
        /\ CharAt(lower, i + 2) \in { "1", "2", "3", "4" }
        /\ IsDigit(CharAt(lower, i + 3))
        /\ (i = 1 \/ ~IsWordChar(CharAt(lower, i - 1)))
        /\ (i + 3 = Len(lower) \/ ~IsWordChar(CharAt(lower, i + 4)))

is_time_sensitive_query(text) ==
    LET lower == Lower(text) IN
    \/ AnyIn(TIME_SENSITIVE_KEYWORDS, lower)
    \/ AnyIn(relative_phrases, lower)
    \/ AnyIn(DOMAIN_KEYWORDS, lower)
    \/ AnyIn(SPORTS_RESULT_KEYWORDS, lower)
    \/ RecentYearSearch(lower)

_is_sports_result_query(text) ==
    LET lower == Lower(text) IN
    \/ AnyIn(SPORTS_RESULT_KEYWORDS, lower)
    \/ /\ (Contains(lower, "vs") \/ Contains(lower, "v "))
       /\ AnyIn({ "rugby", "football", "match", "game" }, lower)

---------------------------------------------------------------------------
(* Home-state cache: src/memory/state_cache.py, src/tools/mcp/home_assistant_mcp.py *)

EmptyDict == [k \in {} |-> ""]

DefaultHomeState == [lights |-> "unknown", doors_locked |-> "unknown"]

\* _STATE = {}
EmptyStore == [u \in {} |-> DefaultHomeState]

\* get_home_state: _STATE.get(user_id, {...}); the value of the dict returned
get_home_state(store, user_id) ==
    IF user_id \in DOMAIN store THEN store[user_id] ELSE DefaultHomeState

\* dict.update
DictUpdate(current, new_state) ==
    [k \in (DOMAIN current) \cup (DOMAIN new_state) |->
        IF k \in DOMAIN new_state THEN new_state[k] ELSE current[k]]

\* an update that replaces the stored dict by the partial one
set_home_state_replace(store, user_id, new_state) ==
    [u \in (DOMAIN store) \cup {user_id} |->
        IF u = user_id THEN new_state ELSE store[u]]

\* set_home_state: the store after current = get; current.update(new); _STATE[user] = current
set_home_state(store, user_id, new_state) ==
    [u \in (DOMAIN store) \cup {user_id} |->
        IF u = user_id THEN DictUpdate(get_home_state(store, user_id), new_state)
        ELSE store[u]]

\* A dict handed to a caller: an alias of the user's stored dict (which set_home_state
\* updates in place) or a fresh dict of its own.
StoredRef(user_id) == [ref |-> TRUE, user |-> user_id, val |-> EmptyDict]
FreshDict(d) == [ref |-> FALSE, user |-> "", val |-> d]

\* what get_home_state returns: the stored object when there is one, else a fresh default
GetRef(store, user_id) ==
    IF user_id \in DOMAIN store THEN StoredRef(user_id) ELSE FreshDict(DefaultHomeState)

\* the present content of a dict handed out earlier
Deref(store, d) == IF d.ref THEN store[d.user] ELSE d.val

---------------------------------------------------------------------------
(* Sentinel parsing: src/agents/sentinel.py *)

SentinelLights(lower) ==
    IF Contains(lower, "lights") /\ Contains(lower, "off") THEN [lights |-> "off"]
    ELSE IF Contains(lower, "lights") /\ Contains(lower, "on") THEN [lights |-> "on"]
    ELSE EmptyDict

SentinelDoors(lower) ==
    LET locked == IF Contains(lower, "lock") /\ Contains(lower, "door")
                  THEN [doors_locked |-> "locked"] ELSE EmptyDict
    IN  IF Contains(lower, "unlock") /\ Contains(lower, "door")
        THEN DictUpdate(locked, [doors_locked |-> "unlocked"])
        ELSE locked

\* new_state as built by the substring checks
SentinelParse(user_message) ==
    LET lower == Lower(user_message) IN
    DictUpdate(SentinelLights(lower), SentinelDoors(lower))

---------------------------------------------------------------------------
(* Scribe mode classification: src/agents/scribe.py *)

scheduling_keywords ==
    { "add to my calendar", "add this to my calendar", "add it to my calendar",
      "put this in my calendar", "put it in my calendar", "schedule", "schedule in",
      "schedule this", "book in", "set a reminder", "remind me", "create an event",
      "create event", "calendar", "meeting", "appointment", "dinner with", "call with" }

log_keywords ==
    { "log:", "log ", "diary", "journal", "note to self", "write this down",
      "record this", "remember that" }

_classify_mode(user_message) ==
    LET text == Lower(user_message) IN
    IF AnyIn(scheduling_keywords, text) THEN "schedule"
    ELSE IF AnyIn(log_keywords, text) THEN "log"
    ELSE "reflect"

\* capture_entry: the raw text stored, a leading "log:" / "log " cut off
CaptureRawText(user_message) ==
    LET lower == Lower(user_message) IN
    IF StartsWith(lower, "log:") \/ StartsWith(lower, "log ")
    THEN Strip(SubSeq(user_message, 5, Len(user_message)))
    ELSE Strip(user_message)

---------------------------------------------------------------------------
(* The call frames *)

Slots == { 1, 2 }

NoDecision == Decision("", "")
NoDict == FreshDict(EmptyDict)

\* deployment/app.py line 95: app.state.sessions = {}
NoSessions == [k \in {} |-> << >>]
\* a list that is not (yet) stored under any key
NoList == FreshDict(<< >>)

NewCall(entry, pc, user, msg, flow) ==
    [ entry |-> entry,            \* "route", "hub", "graph", "set_home_state", "get_home_state"
      pc |-> pc,
      user |-> user,
      msg |-> msg,
      flow |-> flow,              \* Graph.run's flow argument (flow_value)
      decision |-> NoDecision,    \* the RoutingDecision
      agents |-> << >>,           \* trace["agents"]
      tools |-> << >>,            \* trace["tools"]
      log |-> << >>,              \* handles and tools invoked, in call order
      mode |-> "",                \* Scribe's mode
      use_google |-> FALSE,
      tool_name |-> "",
      search_results |-> << >>,
      new_state |-> EmptyDict,    \* Sentinel's partial update
      approved |-> TRUE,
      state |-> NoDict,           \* the dict Sentinel got from the set/get collaborator
      result |-> EmptyDict,       \* the specialist's result dict
      ctx |-> EmptyDict,          \* the context struct Graph.run assembled
      reply |-> "",
      error |-> "",
      before |-> EmptyStore,      \* _STATE as it was when the call began
      request |-> "",            \* deployment/app.py req.message
      session_key |-> "",
      history |-> NoList ]        \* the list `history` of deployment/app.py chat

Idle == NewCall("", "idle", "", "", "")

\* a call beginning while the home-state cache holds `store`
Began(frame, store) == [frame EXCEPT !.before = store]

IdleExcept(s, frame) == [t \in Slots |-> IF t = s THEN frame ELSE Idle]

\* an invocation: what was called, with what, how it ended ("ok" / "raise"), what it returned
Event(kind, name, arg, out, ret) ==
    [kind |-> kind, name |-> name, arg |-> arg, out |-> out, ret |-> ret]
HandleEvent(agent) == Event("handle", agent, EmptyDict, "", "")
\* a specialist handing the request on to another one
DelegateEvent(agent) == Event("delegate", agent, EmptyDict, "", "")
ToolEvent(name, arg, out, ret) == Event("tool", name, arg, out, ret)

\* an exception that is swallowed: the request carries on to its return
Raise_swallowed(frame, what) ==
    [frame EXCEPT !.pc = IF frame.entry \in { "hub", "graph", "chat" } THEN "graph_return"
                         ELSE "returned"]

Raise(frame, what) == [frame EXCEPT !.pc = "raised", !.error = what]

\* the events of a log that invoke the named tool / specialist
ToolCalls(log, name) == { i \in DOMAIN log : log[i].kind = "tool" /\ log[i].name = name }
HandleCalls(log) == { i \in DOMAIN log : log[i].kind = "handle" }

---------------------------------------------------------------------------
(* Router called on its own *)

\* route(user_message): pure, returns a RoutingDecision
RouteCall(s) ==
    /\ call[s].entry = "route"
    /\ call[s].pc = "start"
    /\ call' = [call EXCEPT ![s].pc = "returned", ![s].decision = route(call[s].msg)]
    /\ UNCHANGED <<sessions, registry, _STATE, journal, archivist, events>>

RegistryAsDefined ==
    { "math.add", "math.subtract", "human.approve", "search.google", "search.wikipedia",
      "calendar.add_event", "calendar.list_upcoming", "calendar.local_add",
      "calendar.local_list", "memory.journal_recent", "memory.journal_search",
      "smarthome.get_state", "smarthome.set_state" }

InitRoute ==
    /\ registry = RegistryAsDefined
    /\ _STATE = EmptyStore
    /\ journal = << >>
    /\ archivist = TRUE
    /\ events = << >>
    /\ sessions = NoSessions
    /\ \E m \in RouteMessages : call = IdleExcept(1, NewCall("route", "start", "bryn", m, ""))

NextRoute == RouteCall(1)

SpecRoute == InitRoute /\ [][NextRoute]_vars

---------------------------------------------------------------------------
(* Router properties, under SpecRoute *)

Routed == call[1].entry = "route" /\ call[1].pc = "returned"
RoutedText == RouteText(call[1].msg)
RoutedFlow == call[1].decision.flow

Rule1 == CalendarVerbRule(RoutedText) \/ SchedulingRule(RoutedText)
Rule2 == JournalRule(RoutedText)
Rule3 == HomeRule(RoutedText)
Rule4 == KnowledgeRule(RoutedText)

C2_CalendarVerbIsJournal ==
    (Routed /\ Contains(Lower(call[1].msg), "calendar")
            /\ \E verb \in { "add", "put", "schedule", "create", "remind" } :
                   Contains(Lower(call[1].msg), verb))
        => (RoutedFlow = "journal" /\ RoutedFlow # "knowledge")

\* 'calendar' and a verb together with a '?', a knowledge trigger word, routed journal
C2_Witness ==
    /\ Routed
    /\ call[1].msg = "Add the latest price list to my calendar?"
    /\ Rule4
    /\ RoutedFlow = "journal"

\* C3 (as claimed): every message starting with 'log:' or 'note:' (case-insensitive)
\* is routed to the journal flow.
C3_LogNotePrefixIsJournal ==
    (Routed /\ (StartsWith(Lower(call[1].msg), "log:") \/ StartsWith(Lower(call[1].msg), "note:")))
        => RoutedFlow = "journal"

\* C4 (as claimed): the messages asking about the user's own past notes are routed
\* to the journal (diary-reflection) flow, not to knowledge or general.
C4_ReflectionIsJournal ==
    (Routed /\ call[1].msg \in { "What have I been saying about work lately?",
                                 "Show me patterns in my notes" })
        => RoutedFlow = "journal"

---------------------------------------------------------------------------
(* The home-state cache called on its own *)

Users == { "bryn", "ana" }

HomeKeys == { "lights", "doors_locked" }

HomeValues(k) ==
    IF k = "lights" THEN { "on", "off", "unknown" } ELSE { "locked", "unlocked", "unknown" }

\* the partial updates: every map from some of the keys to a value of that key
Partials ==
    UNION { { p \in [ks -> { "on", "off", "locked", "unlocked", "unknown" }] :
                \A k \in ks : p[k] \in HomeValues(k) } : ks \in SUBSET HomeKeys }

\* home_assistant_mcp.set_home_state: merge, then return the user's (stored) state
smarthome_set_state(store, user_id, partial_state) ==
    [ store |-> set_home_state(store, user_id, partial_state),
      ret |-> GetRef(set_home_state(store, user_id, partial_state), user_id) ]

\* home_assistant_mcp.get_home_state
smarthome_get_state(store, user_id) == GetRef(store, user_id)

StoreFrame(entry, user, partial, ret) ==
    [NewCall(entry, "returned", user, "", "") EXCEPT !.new_state = partial, !.state = ret]

\* state_cache.set_home_state(user_id, new_state), returns None
SetHomeStateCall(s) ==
    \E u \in Users, p \in Partials :
        /\ call[s].entry \in { "store", "set_home_state", "get_home_state", "smarthome.set_state" }
        /\ _STATE' = set_home_state(_STATE, u, p)
        /\ call' = [call EXCEPT ![s] = StoreFrame("set_home_state", u, p, NoDict)]
        /\ UNCHANGED <<sessions, registry, journal, archivist, events>>

\* state_cache.get_home_state(user_id)
GetHomeStateCall(s) ==
    \E u \in Users :
        /\ call[s].entry \in { "store", "set_home_state", "get_home_state", "smarthome.set_state" }
        /\ call' = [call EXCEPT ![s] = StoreFrame("get_home_state", u, EmptyDict, GetRef(_STATE, u))]
        /\ UNCHANGED <<sessions, registry, _STATE, journal, archivist, events>>

\* the smarthome.set_state tool called with a partial state
SmarthomeSetStateCall(s) ==
    \E u \in Users, p \in Partials :
        /\ call[s].entry \in { "store", "set_home_state", "get_home_state", "smarthome.set_state" }
        /\ _STATE' = smarthome_set_state(_STATE, u, p).store
        /\ call' = [call EXCEPT ![s] =
                        StoreFrame("smarthome.set_state", u, p, smarthome_set_state(_STATE, u, p).ret)]
        /\ UNCHANGED <<sessions, registry, journal, archivist, events>>

InitStore ==
    /\ registry = RegistryAsDefined
    /\ _STATE = EmptyStore
    /\ journal = << >>
    /\ archivist = TRUE
    /\ events = << >>
    /\ sessions = NoSessions
    /\ call = IdleExcept(1, NewCall("store", "start", "", "", ""))

NextStore == SetHomeStateCall(1) \/ GetHomeStateCall(1) \/ SmarthomeSetStateCall(1)

SpecStore == InitStore /\ [][NextStore]_vars

\* the value a key of the user's state has (what get_home_state would show)
KeyValue(store, u, k) == get_home_state(store, u)[k]

\* C8: a set_home_state step overwrites exactly the keys of the partial update and
\* leaves every other key of that user (prior value, 'unknown' if the user had no
\* state) and every other user alone; a read returns the all-'unknown' state for an
\* absent user and creates no entry; {lights: off} on {on, locked} gives {off, locked}.
C8_PartialMerge ==
    [][ LET f == call'[1] IN
        /\ f.entry \in { "set_home_state", "smarthome.set_state" } =>
              /\ f.user \in DOMAIN _STATE'
              /\ DOMAIN _STATE'[f.user] = HomeKeys
              /\ \A k \in HomeKeys :
                    _STATE'[f.user][k] = IF k \in DOMAIN f.new_state THEN f.new_state[k]
                                         ELSE KeyValue(_STATE, f.user, k)
              /\ \A u \in Users \ {f.user} :
                    /\ u \in DOMAIN _STATE' <=> u \in DOMAIN _STATE
                    /\ u \in DOMAIN _STATE => _STATE'[u] = _STATE[u]
              /\ (/\ f.user \in DOMAIN _STATE
                  /\ _STATE[f.user] = [lights |-> "on", doors_locked |-> "locked"]
                  /\ f.new_state = [lights |-> "off"])
                    => _STATE'[f.user] = [lights |-> "off", doors_locked |-> "locked"]
              /\ f.entry = "smarthome.set_state" => Deref(_STATE', f.state) = _STATE'[f.user]
        /\ f.entry = "get_home_state" =>
              /\ _STATE' = _STATE
              /\ f.user \notin DOMAIN _STATE =>
                    Deref(_STATE', f.state) = [lights |-> "unknown", doors_locked |-> "unknown"]
              /\ f.user \in DOMAIN _STATE => Deref(_STATE', f.state) = _STATE[f.user]
      ]_vars

\* {lights: off} has just been merged into a stored {on, locked}: doors_locked survived
C8_Witness ==
    /\ call[1].entry = "set_home_state"
    /\ call[1].new_state = [lights |-> "off"]
    /\ call[1].user \in DOMAIN _STATE
    /\ _STATE[call[1].user] = [lights |-> "off", doors_locked |-> "locked"]

---------------------------------------------------------------------------
(* Specialists: what a call returns to *)

\* a specialist called by Graph.run returns into it; called on its own, to its caller
AfterSpecialist(frame) ==
    IF frame.entry \in { "hub", "graph", "chat" } THEN "graph_return" ELSE "returned"

LlmEvent(out) == Event("llm", "generate", EmptyDict, out, "")
\* a generate call that returned this text
LlmReply(raw) == Event("llm", "generate", EmptyDict, "ok", raw)
LlmCalls(log) == { i \in DOMAIN log : log[i].kind = "llm" }

---------------------------------------------------------------------------
(* Oracle: src/agents/oracle.py OracleAgent.handle *)

\* what a search tool returns: k entries it produced
Results(tool, k) ==
    [i \in 1..k |-> [title |-> tool, description |-> "hit", url |-> "https"]]

\* a failed search that leaves no entry at all
SearchError_none == << >>

\* the synthetic entry that stands for a failed search
SearchError == << [title |-> "Search error", description |-> "exception", url |-> ""] >>

SearchArg(query) == [query |-> query, limit |-> "5"]

\* the query sent to the primary tool
query_for_search(user_message) ==
    IF _is_sports_result_query(user_message)
    THEN user_message \o " final score result"
    ELSE user_message

\* a choice of primary tool that ignores the heuristic and always searches live
PrimaryTool_always_live(use_google) == "search.google"

\* tool_name = "search.google" if use_google else "search.wikipedia"
PrimaryTool(use_google) == IF use_google THEN "search.google" ELSE "search.wikipedia"

\* lines 149-180: choose the tool, build the query, call the tool (if registered)
OracleSearch(s) ==
    LET f == call[s]
        use_google == is_time_sensitive_query(f.msg)
        tool_name == PrimaryTool(use_google)
        arg == SearchArg(query_for_search(f.msg))
        g == [f EXCEPT !.pc = "oracle_fallback", !.use_google = use_google,
                       !.tool_name = tool_name]
    IN  /\ f.pc = "oracle_search"
        /\ \/ /\ tool_name \in registry
              /\ \E k \in 0..MaxResults :
                    call' = [call EXCEPT ![s] =
                        [g EXCEPT !.search_results = Results(tool_name, k),
                                  !.log = Append(f.log, ToolEvent(tool_name, arg, "ok", Results(tool_name, k)))]]
           \/ /\ tool_name \in registry
              /\ call' = [call EXCEPT ![s] =
                        [g EXCEPT !.search_results = SearchError,
                                  !.log = Append(f.log, ToolEvent(tool_name, arg, "raise", "exception"))]]
           \/ /\ tool_name \notin registry
              /\ call' = [call EXCEPT ![s] = [g EXCEPT !.search_results = << >>]]
        /\ UNCHANGED <<sessions, registry, _STATE, journal, archivist, events>>

\* a fallback that is taken whatever the primary tool was
NeedsFallback_always(use_google, search_results) == search_results = << >>

\* if use_google and not search_results
NeedsFallback(use_google, search_results) == use_google /\ search_results = << >>

\* a fallback that leaves tool_name alone
FallbackToolName_kept(tool_name) == tool_name

\* tool_name = "search.wikipedia", after the fallback call returned
FallbackToolName(tool_name) == "search.wikipedia"

\* lines 182-191: the Wikipedia fallback after an empty live search
OracleFallback(s) ==
    LET f == call[s]
        g == [f EXCEPT !.pc = "oracle_llm"]
        arg == SearchArg(f.msg)
        wanted == NeedsFallback(f.use_google, f.search_results)
    IN  /\ f.pc = "oracle_fallback"
        /\ \/ /\ wanted /\ "search.wikipedia" \in registry
              /\ \E k \in 0..MaxResults :
                    call' = [call EXCEPT ![s] =
                        [g EXCEPT !.search_results = Results("search.wikipedia", k),
                                  !.tool_name = FallbackToolName(f.tool_name),
                                  !.log = Append(f.log, ToolEvent("search.wikipedia", arg, "ok",
                                                           Results("search.wikipedia", k)))]]
           \/ /\ wanted /\ "search.wikipedia" \in registry
              /\ call' = [call EXCEPT ![s] =
                        [g EXCEPT !.log = Append(f.log, ToolEvent("search.wikipedia", arg, "raise", "exception"))]]
           \/ /\ ~(wanted /\ "search.wikipedia" \in registry)
              /\ call' = [call EXCEPT ![s] = g]
        /\ UNCHANGED <<sessions, registry, _STATE, journal, archivist, events>>

\* lines 193-238: build the prompt, ask the model, return the result
OracleAnswer(s) ==
    LET f == call[s] IN
    /\ f.pc = "oracle_llm"
    /\ \/ call' = [call EXCEPT ![s] =
              [f EXCEPT !.pc = AfterSpecialist(f),
                        !.log = Append(f.log, LlmEvent("ok")),
                        !.result = [answer |-> "llm-text",
                                    search_results |-> f.search_results,
                                    tool_used |-> f.tool_name]]]
       \/ call' = [call EXCEPT ![s] =
              Raise([f EXCEPT !.log = Append(f.log, LlmEvent("raise"))], "llm.generate")]
    /\ UNCHANGED <<sessions, registry, _STATE, journal, archivist, events>>

\* the messages of tests/unit/test_oracle_agent.py and a sports query
OracleMessages ==
    { "Who was Ada Lovelace?", "Explain quantum mechanics",
      "What is the latest news on UK interest rates this year?",
      "covid updates 2025", "What was the final score of Lakers vs Celtics?",
      "Tell me about the 2012 Olympics", "The football game of 1966, England v Germany" }

SearchTools == { "search.google", "search.wikipedia" }

\* the registry as defined, with some of the given tools not registered
RegistriesWithout(tools) == { RegistryAsDefined \ absent : absent \in SUBSET tools }

InitOracle ==
    /\ registry \in RegistriesWithout(SearchTools)
    /\ _STATE = EmptyStore
    /\ journal = << >>
    /\ archivist = TRUE
    /\ events = << >>
    /\ sessions = NoSessions
    /\ \E m \in OracleMessages :
          call = IdleExcept(1, NewCall("oracle", "oracle_search", "bryn", m, ""))

NextOracle == OracleSearch(1) \/ OracleFallback(1) \/ OracleAnswer(1)

SpecOracle == InitOracle /\ [][NextOracle]_vars

---------------------------------------------------------------------------
(* Oracle properties, under SpecOracle *)

OracleOver == call[1].entry = "oracle" /\ call[1].pc \in { "returned", "raised" }
OracleReturned == call[1].entry = "oracle" /\ call[1].pc = "returned"
GoogleCalls == ToolCalls(call[1].log, "search.google")
WikiCalls == ToolCalls(call[1].log, "search.wikipedia")

\* the live search was called and returned at least one entry / an empty list
LiveReturnedSome ==
    \E i \in GoogleCalls : call[1].log[i].out = "ok" /\ Len(call[1].log[i].ret) >= 1
LiveReturnedEmpty ==
    \E i \in GoogleCalls : call[1].log[i].out = "ok" /\ call[1].log[i].ret = << >>

\* C9: with both search tools registered, a non-time-sensitive message calls
\* search.wikipedia once and search.google never and reports tool_used =
\* search.wikipedia; a time-sensitive one whose live search returns an entry calls
\* search.google once and search.wikipedia never and reports tool_used = search.google.
C9_ToolSelection ==
    (OracleOver /\ SearchTools \subseteq registry) =>
        /\ (~is_time_sensitive_query(call[1].msg)
              \/ call[1].msg \in { "Who was Ada Lovelace?", "Explain quantum mechanics" }) =>
              /\ Cardinality(WikiCalls) = 1
              /\ Cardinality(GoogleCalls) = 0
              /\ OracleReturned => call[1].result.tool_used = "search.wikipedia"
        /\ ((is_time_sensitive_query(call[1].msg)
               \/ call[1].msg = "What is the latest news on UK interest rates this year?")
             /\ LiveReturnedSome) =>
              /\ Cardinality(GoogleCalls) = 1
              /\ Cardinality(WikiCalls) = 0
              /\ OracleReturned => call[1].result.tool_used = "search.google"

\* a time-sensitive call answered from the live search alone
C9_Witness ==
    /\ OracleReturned /\ SearchTools \subseteq registry
    /\ call[1].msg = "What is the latest news on UK interest rates this year?"
    /\ LiveReturnedSome
    /\ call[1].result.tool_used = "search.google"
    /\ call[1].result.search_results = Results("search.google", 1)

\* C10 (as claimed): for a time-sensitive message whose live search returns an empty
\* list, the static tool is invoked exactly once, after the live call, and tool_used
\* is the static tool.
C10_FallbackAlways ==
    (OracleReturned /\ is_time_sensitive_query(call[1].msg) /\ LiveReturnedEmpty) =>
        /\ Cardinality(WikiCalls) = 1
        /\ \A j \in WikiCalls : \E i \in GoogleCalls : i < j
        /\ call[1].result.tool_used = "search.wikipedia"

\* C10 (amended): after an empty live search the static tool, when registered, is
\* invoked exactly once, after the single live call; tool_used switches to the static
\* tool when that call returns, and stays the live tool, with empty results, when the
\* static tool is not registered or raises.
C10_Fallback ==
    /\ (call[1].entry = "oracle" /\ is_time_sensitive_query(call[1].msg)
          /\ "search.google" \in registry) =>
          \A j \in WikiCalls :
              \E i \in GoogleCalls :
                  i < j /\ call[1].log[i].out = "ok" /\ call[1].log[i].ret = << >>
    /\ (OracleOver /\ is_time_sensitive_query(call[1].msg) /\ LiveReturnedEmpty) =>
          /\ Cardinality(GoogleCalls) = 1
          /\ "search.wikipedia" \in registry => Cardinality(WikiCalls) = 1
          /\ "search.wikipedia" \notin registry => Cardinality(WikiCalls) = 0
          /\ OracleReturned =>
                IF \E j \in WikiCalls : call[1].log[j].out = "ok"
                THEN /\ call[1].result.tool_used = "search.wikipedia"
                     /\ \E j \in WikiCalls :
                            call[1].result.search_results = call[1].log[j].ret
                ELSE /\ call[1].result.tool_used = "search.google"
                     /\ call[1].result.search_results = << >>

\* an empty live search followed by one Wikipedia call whose entries are returned
C10_Witness ==
    /\ OracleReturned /\ is_time_sensitive_query(call[1].msg) /\ LiveReturnedEmpty
    /\ Cardinality(WikiCalls) = 1
    /\ call[1].result.tool_used = "search.wikipedia"
    /\ Len(call[1].result.search_results) >= 1

---------------------------------------------------------------------------
(* Sentinel: src/agents/sentinel.py SentinelAgent.handle *)

\* f"Update smart home state for user {user_id} with {new_state}"
ApprovalDescription(user_id, new_state) == [user_id |-> user_id, new_state |-> new_state]

\* approved = True, replaced by the approval tool's answer when it was asked
Approved(asked, answer) == IF asked THEN answer ELSE TRUE

\* if new_state and approved and smarthome_set is not None
WillSet(new_state, approved, reg) ==
    new_state # EmptyDict /\ approved /\ "smarthome.set_state" \in reg

\* lines 56-71, after the approval: the set-state call or the read of the current state
SentinelApply(s, f, new_state, approved, log1) ==
    LET u == f.user
        g == [f EXCEPT !.pc = "sentinel_llm", !.new_state = new_state,
                       !.approved = approved]
        setArg == [user_id |-> u, partial_state |-> new_state]
        getArg == [user_id |-> u]
    IN  \/ /\ WillSet(new_state, approved, registry)
           /\ _STATE' = smarthome_set_state(_STATE, u, new_state).store
           /\ call' = [call EXCEPT ![s] =
                  [g EXCEPT !.state = smarthome_set_state(_STATE, u, new_state).ret,
                            !.log = Append(log1, ToolEvent("smarthome.set_state", setArg, "ok",
                                             smarthome_set_state(_STATE, u, new_state).ret))]]
        \/ /\ WillSet(new_state, approved, registry)
           \* the collaborator raises before it has written: state = fallback_get_home_state
           /\ _STATE' = _STATE
           /\ call' = [call EXCEPT ![s] =
                  [g EXCEPT !.state = GetRef(_STATE, u),
                            !.log = Append(log1, ToolEvent("smarthome.set_state", setArg, "raise",
                                                           "exception"))]]
        \/ /\ ~WillSet(new_state, approved, registry)
           /\ "smarthome.get_state" \in registry
           /\ _STATE' = _STATE
           /\ \E out \in { "ok", "raise" } :
                 call' = [call EXCEPT ![s] =
                    [g EXCEPT !.state = IF out = "ok" THEN smarthome_get_state(_STATE, u)
                                        ELSE GetRef(_STATE, u),
                              !.log = Append(log1, ToolEvent("smarthome.get_state", getArg, out,
                                                             GetRef(_STATE, u)))]]
        \/ /\ ~WillSet(new_state, approved, registry)
           /\ "smarthome.get_state" \notin registry
           /\ _STATE' = _STATE
           /\ call' = [call EXCEPT ![s] = [g EXCEPT !.state = GetRef(_STATE, u), !.log = log1]]

\* lines 27-71: parse the message, ask for approval, apply or read the state
SentinelAct(s) ==
    LET f == call[s]
        new_state == SentinelParse(f.msg)
        asked == new_state # EmptyDict /\ "human.approve" \in registry
        desc == ApprovalDescription(f.user, new_state)
    IN  /\ f.pc = "sentinel_act"
        /\ \/ /\ asked
              /\ \E answer \in BOOLEAN :
                    SentinelApply(s, f, new_state, Approved(asked, answer),
                        Append(f.log, ToolEvent("human.approve", desc, "ok", answer)))
           \/ /\ asked
              \* the approval tool raises: nothing catches it
              /\ call' = [call EXCEPT ![s] =
                    Raise([f EXCEPT !.new_state = new_state,
                                    !.log = Append(f.log, ToolEvent("human.approve", desc,
                                                                    "raise", "exception"))],
                          "human.approve")]
              /\ _STATE' = _STATE
           \/ /\ ~asked
              /\ SentinelApply(s, f, new_state, Approved(asked, TRUE), f.log)
        /\ UNCHANGED <<sessions, registry, journal, archivist, events>>

\* lines 73-95: the narrative from the model, and the result
SentinelNarrate(s) ==
    LET f == call[s] IN
    /\ f.pc = "sentinel_llm"
    /\ \/ call' = [call EXCEPT ![s] =
              [f EXCEPT !.pc = AfterSpecialist(f),
                        !.log = Append(f.log, LlmEvent("ok")),
                        !.result = [state |-> f.state, approved |-> f.approved,
                                    narrative |-> "llm-text"]]]
       \/ call' = [call EXCEPT ![s] =
              Raise([f EXCEPT !.log = Append(f.log, LlmEvent("raise"))], "llm.generate")]
    /\ UNCHANGED <<sessions, registry, _STATE, journal, archivist, events>>

SentinelMessages ==
    { "Turn the lights on and lock the door.", "Turn the lights off and lock the door.",
      "Unlock the front door", "lights off", "What is the temperature?",
      "Turn the lights on and lock the office door", "Is the garage door locked?" }

SentinelTools == { "human.approve", "smarthome.set_state", "smarthome.get_state" }

\* the dicts set_home_state can have stored for a user: some key was written
StoredHomeStates ==
    { d \in [HomeKeys -> { "on", "off", "locked", "unlocked", "unknown" }] :
        /\ \A k \in HomeKeys : d[k] \in HomeValues(k)
        /\ \E k \in HomeKeys : d[k] # "unknown" }

\* the contents _STATE can have when a call begins
Stores ==
    UNION { [us -> StoredHomeStates] :
              us \in { x \in SUBSET Users : Cardinality(x) <= MaxStoredUsers } }

InitSentinel ==
    /\ registry \in RegistriesWithout(SentinelTools)
    /\ _STATE \in Stores
    /\ journal = << >>
    /\ archivist = TRUE
    /\ events = << >>
    /\ sessions = NoSessions
    /\ \E m \in SentinelMessages, u \in Users :
          call = IdleExcept(1, Began(NewCall("sentinel", "sentinel_act", u, m, ""), _STATE))

NextSentinel == SentinelAct(1) \/ SentinelNarrate(1)

SpecSentinel == InitSentinel /\ [][NextSentinel]_vars

---------------------------------------------------------------------------
(* Sentinel: the approval gate and the lights-on / door-lock path *)

SentinelReturned == call[1].entry = "sentinel" /\ call[1].pc = "returned"
ApproveCalls == ToolCalls(call[1].log, "human.approve")
SetStateCalls == ToolCalls(call[1].log, "smarthome.set_state")
GetStateCalls == ToolCalls(call[1].log, "smarthome.get_state")

\* the approval tool was called and answered true / false
ApprovalGranted == \E j \in ApproveCalls : call[1].log[j].out = "ok" /\ call[1].log[j].ret = TRUE
ApprovalDenied == \E j \in ApproveCalls : call[1].log[j].out = "ok" /\ call[1].log[j].ret = FALSE

\* C6: set-state is invoked only if the message requested a change and the approval
\* tool was invoked earlier in the same call with a description of that change and
\* returned true; when approval returns false, set-state is never invoked, the stored
\* home state is unchanged and the result reports approved = false.
C6_ApprovalGate ==
    call[1].entry = "sentinel" =>
        /\ \A i \in SetStateCalls :
              /\ SentinelParse(call[1].msg) # EmptyDict
              /\ \E j \in ApproveCalls :
                    /\ j < i
                    /\ call[1].log[j].arg =
                          ApprovalDescription(call[1].user, SentinelParse(call[1].msg))
                    /\ call[1].log[j].out = "ok"
                    /\ call[1].log[j].ret = TRUE
        /\ ApprovalDenied =>
              /\ SetStateCalls = {}
              /\ _STATE = call[1].before
              /\ call[1].pc = "returned" => call[1].result.approved = FALSE

\* the messages of the lights-on and door-lock case
LightsOnDoorLockMessages ==
    { "Turn the lights on and lock the door.", "Turn the lights on and lock the office door" }

BothKeys == [lights |-> "on", doors_locked |-> "locked"]

LightsOnDoorLockOutcome ==
    /\ Cardinality(ApproveCalls) = 1
    /\ Cardinality(SetStateCalls) = 1
    /\ \A i \in SetStateCalls : call[1].log[i].arg.partial_state = BothKeys
    /\ GetStateCalls = {}
    /\ Deref(_STATE, call[1].result.state).lights = "on"
    /\ Deref(_STATE, call[1].result.state).doors_locked = "locked"
    /\ call[1].result.approved = TRUE

\* C7: for a message implying lights-on and door-lock, when approval is granted
\* (and the set-state tool is registered and its call returns), there is exactly one
\* approval call and exactly one set-state call whose payload holds lights = "on" and
\* doors_locked = "locked", no get-state call, and the returned state has lights on
\* and doors locked with approved true.
C7_HappyPath ==
    ( /\ SentinelReturned
      /\ call[1].msg \in LightsOnDoorLockMessages
      /\ ApprovalGranted
      /\ "smarthome.set_state" \in registry
      /\ \A i \in SetStateCalls : call[1].log[i].out = "ok" )
        => LightsOnDoorLockOutcome

---------------------------------------------------------------------------
(* The journal store: src/memory/journal_store.py *)

Take(seq, n) == SubSeq(seq, 1, IF n < Len(seq) THEN n ELSE Len(seq))

\* the row save_entry inserts: id = str(uuid.uuid4()) is fresh, timestamp is the
\* wall clock's reading (datetime.utcnow().isoformat(), which sorts as the time does)
JournalEntry(id, user_id, timestamp, raw_text, summary) ==
    [ id |-> id, user_id |-> user_id, timestamp |-> timestamp, raw_text |-> raw_text,
      summary |-> summary, tags |-> << "diary", "v1" >> ]

\* the latest timestamp in the table
LastTimestamp(rows) ==
    IF rows = << >> THEN 0
    ELSE CHOOSE t \in { rows[i].timestamp : i \in DOMAIN rows } :
             \A i \in DOMAIN rows : rows[i].timestamp <= t

\* what utcnow() can read at a save: the clock has moved on since the last save, or
\* still shows the same reading
ClockReads(rows) == { LastTimestamp(rows), LastTimestamp(rows) + 1 }

\* the table (rows in insertion order) after the INSERT, and the id returned
save_entry(rows, user_id, raw_text, summary, timestamp) ==
    [ rows |-> Append(rows, JournalEntry(Len(rows) + 1, user_id, timestamp, raw_text, summary)),
      ret |-> Len(rows) + 1 ]

RECURSIVE InsertDesc(_, _)
\* r put behind every row whose timestamp is not smaller
InsertDesc(sorted, r) ==
    IF sorted = << >> THEN << r >>
    ELSE IF Head(sorted).timestamp >= r.timestamp
         THEN << Head(sorted) >> \o InsertDesc(Tail(sorted), r)
         ELSE << r >> \o sorted

RECURSIVE OrderByTimestampDesc(_)
\* ORDER BY timestamp DESC: rows of equal timestamp stay in insertion (rowid) order
OrderByTimestampDesc(rows) ==
    IF rows = << >> THEN << >>
    ELSE InsertDesc(OrderByTimestampDesc(SubSeq(rows, 1, Len(rows) - 1)), rows[Len(rows)])

\* a query that forgets the user
UserRows_all(rows, user_id) == rows

\* WHERE user_id = ?
UserRows(rows, user_id) == LET OfUser(r) == r.user_id = user_id IN SelectSeq(rows, OfUser)

\* ... ORDER BY timestamp DESC LIMIT ?
get_recent_entries(rows, user_id, limit) ==
    Take(OrderByTimestampDesc(UserRows(rows, user_id)), limit)

AsciiUpper == "ABCDEFGHIJKLMNOPQRSTUVWXYZ"
AsciiLower == "abcdefghijklmnopqrstuvwxyz"

SqlLowerTable ==
    [c \in { CharAt(AsciiUpper, i) : i \in 1..Len(AsciiUpper) } |->
        CharAt(AsciiLower, CHOOSE i \in 1..Len(AsciiUpper) : CharAt(AsciiUpper, i) = c)]

\* SQLite's LOWER(), which folds ASCII letters only
SqlLowerChar(c) == IF c \in DOMAIN SqlLowerTable THEN SqlLowerTable[c] ELSE c

RECURSIVE SqlLower(_)
SqlLower(s) ==
    IF Len(s) = 0 THEN "" ELSE SqlLowerChar(CharAt(s, 1)) \o SqlLower(SubSeq(s, 2, Len(s)))

RECURSIVE Like(_, _)
\* text LIKE pat: % is any run of characters, _ any one character, ASCII letters
\* compare without case
Like(text, pat) ==
    IF pat = "" THEN text = ""
    ELSE IF CharAt(pat, 1) = "%"
         THEN \/ Like(text, SubSeq(pat, 2, Len(pat)))
              \/ text # "" /\ Like(SubSeq(text, 2, Len(text)), pat)
    ELSE /\ text # ""
         /\ \/ CharAt(pat, 1) = "_"
            \/ SqlLowerChar(CharAt(text, 1)) = SqlLowerChar(CharAt(pat, 1))
         /\ Like(SubSeq(text, 2, Len(text)), SubSeq(pat, 2, Len(pat)))

\* pattern = f"%{query.lower()}%"
\* ... AND LOWER(summary || ' ' || raw_text) LIKE ? ORDER BY timestamp DESC LIMIT ?
search_entries(rows, user_id, query, top_k) ==
    LET pattern == "%" \o Lower(query) \o "%"
        Hit(r) == Like(SqlLower(r.summary \o " " \o r.raw_text), pattern)
    IN  Take(OrderByTimestampDesc(SelectSeq(UserRows(rows, user_id), Hit)), top_k)

---------------------------------------------------------------------------
(* Context assembly: src/memory/__init__.py get_dynamic_context *)

get_user_profile(user_id) == [user_id |-> user_id]

get_dynamic_context(rows, store, user_id, intent, query) ==
    LET profile == [profile |-> get_user_profile(user_id)]
        recent == IF intent \in { "diary_capture", "diary_reflection" }
                  THEN [recent_journal |-> get_recent_entries(rows, user_id, 10)]
                  ELSE EmptyDict
        found == IF intent = "diary_reflection" /\ query # ""
                 THEN [journal_search_results |-> search_entries(rows, user_id, query, 10)]
                 ELSE EmptyDict
        home == IF intent = "smart_home" THEN [home_state |-> GetRef(store, user_id)]
                ELSE EmptyDict
    IN  DictUpdate(DictUpdate(DictUpdate(profile, recent), found), home)

\* graph.py lines 50-56
context_intent(flow_value) ==
    IF flow_value \in { "journal", "diary_capture", "diary_reflection" } THEN "diary_reflection"
    ELSE IF flow_value \in { "home", "smart_home" } THEN "smart_home"
    ELSE "knowledge"

\* the intents whose context is read from the journal table
ReadsJournal(intent) == intent \in { "diary_capture", "diary_reflection" }

---------------------------------------------------------------------------
(* Scribe: src/agents/scribe.py *)

\* What the model answers to the extraction prompt: text before, a JSON value, text
\* after.  kind is "object", "array" or "none" (no JSON value in the text).
RawOutput(pre, kind, obj, post) == [pre |-> pre, kind |-> kind, obj |-> obj, post |-> post]

EventSpec(title, start_iso, end_iso) ==
    [title |-> title, start_iso |-> start_iso, end_iso |-> end_iso]

\* null / missing values are written "None"
RawOutputs ==
    { RawOutput("", "object", EventSpec("Dinner with Annie", "2025-12-12T19:00:00",
                                        "2025-12-12T21:00:00"), ""),
      RawOutput("Here is the event: ", "object",
                EventSpec("Call", "2025-12-12T23:30:00", "None"), " Hope that helps"),
      RawOutput("", "object", EventSpec("", "tomorrow 7pm", ""), ""),
      RawOutput("", "object", EventSpec("Lunch", "None", "None"), ""),
      RawOutput("", "object", EventSpec("Lunch", "", "None"), ""),
      RawOutput("{see below} ", "object",
                EventSpec("Lunch", "2025-06-01T09:30:00", "2025-06-01T10:30:00"), ""),
      RawOutput("", "array", EmptyDict, ""),
      RawOutput("I could not work out a date.", "none", EmptyDict, "") }

HasBrace(str) == Contains(str, "{") \/ Contains(str, "}")

\* Optional[dict]: None, or a dict
NoneDict == [none |-> TRUE, obj |-> EmptyDict]
SomeDict(obj) == [none |-> FALSE, obj |-> obj]

\* an event id when there is none (ids count from 1)
NoEventId == 0

\* _parse_event_json: json.loads of the stripped text, else of the span from the first
\* "{" to the last "}"; None when neither gives an object
_parse_event_json(raw) ==
    IF raw.kind = "object" /\ Strip(raw.pre) = "" /\ Strip(raw.post) = "" THEN SomeDict(raw.obj)
    ELSE IF raw.kind = "object" /\ ~HasBrace(raw.pre) /\ ~HasBrace(raw.post)
    THEN SomeDict(raw.obj)
    ELSE NoneDict

\* a truthiness under which every value counts as present
Truthy_always(v) == TRUE

\* Python truthiness of an optional string
Truthy(v) == v # "None" /\ v # ""

\* datetime.fromisoformat(start_iso) + timedelta(hours=1), as isoformat(); when the
\* start does not parse the end is the start itself
PlusOneHour(start_iso) ==
    CASE start_iso = "2025-12-12T19:00:00" -> "2025-12-12T20:00:00"
      [] start_iso = "2025-12-12T23:30:00" -> "2025-12-13T00:30:00"
      [] start_iso = "2025-06-01T09:30:00" -> "2025-06-01T10:30:00"
      [] OTHER -> start_iso

ScribeResult(mode, fields) == DictUpdate(fields, [mode |-> mode])

\* result.setdefault("tools_used", [])
WithToolsUsed(result) ==
    IF "tools_used" \in DOMAIN result THEN result ELSE DictUpdate(result, [tools_used |-> << >>])

\* the name _schedule_event looks up in the registry
CreateEventTool == "calendar.create_event"

\* a Scribe that subscripts the registry: an unregistered calendar tool is a KeyError
ScribeStart_unguarded(s) ==
    LET f == call[s]
        mode == _classify_mode(f.msg)
        g == [f EXCEPT !.mode = mode]
    IN  /\ f.pc = "scribe_start"
        /\ call' = [call EXCEPT ![s] =
              IF mode = "schedule" /\ CreateEventTool \notin registry
              THEN Raise(g, CreateEventTool)
              ELSE IF mode = "schedule" THEN [g EXCEPT !.pc = "scribe_extract"]
              ELSE IF mode = "log" THEN [g EXCEPT !.pc = "scribe_capture"]
              ELSE IF archivist
                   THEN [g EXCEPT !.pc = "archivist_gather",
                                  !.log = Append(f.log, DelegateEvent("archivist"))]
              ELSE [g EXCEPT !.pc = "scribe_reflect"]]
        /\ UNCHANGED <<sessions, registry, _STATE, journal, archivist, events>>

\* lines 47-73 and the synchronous head of the mode's method
ScribeStart(s) ==
    LET f == call[s]
        mode == _classify_mode(f.msg)
        g == [f EXCEPT !.mode = mode]
    IN  /\ f.pc = "scribe_start"
        /\ call' = [call EXCEPT ![s] =
              IF mode = "schedule" /\ CreateEventTool \notin registry
              THEN [g EXCEPT !.pc = AfterSpecialist(f),
                             !.result = ScribeResult("schedule",
                                 [parsed_event |-> NoneDict, event_id |-> NoEventId,
                                  tools_used |-> << >>, note |-> "calendar tool unavailable"])]
              ELSE IF mode = "schedule" THEN [g EXCEPT !.pc = "scribe_extract"]
              ELSE IF mode = "log" THEN [g EXCEPT !.pc = "scribe_capture"]
              ELSE IF archivist
                   THEN [g EXCEPT !.pc = "archivist_gather",
                                  !.log = Append(f.log, DelegateEvent("archivist"))]
              ELSE [g EXCEPT !.pc = "scribe_reflect"]]
        /\ UNCHANGED <<sessions, registry, _STATE, journal, archivist, events>>

CalendarArg(user_id, title, start_iso, end_iso) ==
    [user_email |-> "None", title |-> title, start_iso |-> start_iso, end_iso |-> end_iso,
     description |-> user_id]

\* lines 207-277: the extraction, the parse and the calendar call
ScribeExtract(s) ==
    LET f == call[s] IN
    /\ f.pc = "scribe_extract"
    /\ \/ /\ call' = [call EXCEPT ![s] =
                Raise([f EXCEPT !.log = Append(f.log, LlmEvent("raise"))], "llm.generate")]
          /\ events' = events
       \/ \E raw \in RawOutputs :
             LET parsed_json == _parse_event_json(raw)
                 event_spec == parsed_json.obj
                 log1 == Append(f.log, LlmReply(raw))
                 done(fields, lg) ==
                     [f EXCEPT !.pc = AfterSpecialist(f), !.log = lg,
                               !.result = WithToolsUsed(ScribeResult("schedule", fields))]
             IN  IF parsed_json.none
                 THEN /\ call' = [call EXCEPT ![s] =
                            done([parsed_event |-> NoneDict, event_id |-> NoEventId,
                                  tools_used |-> << >>, note |-> "no usable date/time"], log1)]
                      /\ events' = events
                 ELSE IF ~Truthy(event_spec.start_iso)
                 THEN /\ call' = [call EXCEPT ![s] =
                            done([parsed_event |-> SomeDict(event_spec), event_id |-> NoEventId,
                                  tools_used |-> << >>, note |-> "no start time"], log1)]
                      /\ events' = events
                 ELSE
                   LET title == IF Truthy(event_spec.title) THEN event_spec.title ELSE f.msg
                       start_iso == event_spec.start_iso
                       end_iso == IF Truthy(event_spec.end_iso) THEN event_spec.end_iso
                                  ELSE PlusOneHour(start_iso)
                       arg == CalendarArg(f.user, title, start_iso, end_iso)
                       parsed == SomeDict(EventSpec(title, start_iso, end_iso))
                       event_id == Len(events) + 1
                   IN  \/ /\ events' = Append(events, [id |-> event_id, spec |-> arg])
                          /\ call' = [call EXCEPT ![s] =
                                done([parsed_event |-> parsed, event_id |-> event_id,
                                      tools_used |-> << CreateEventTool >>,
                                      note |-> "Event created"],
                                     Append(log1, ToolEvent(CreateEventTool, arg, "ok", event_id)))]
                       \/ /\ events' = events
                          /\ call' = [call EXCEPT ![s] =
                                done([parsed_event |-> parsed, event_id |-> NoEventId,
                                      tools_used |-> << >>, note |-> "hit an error"],
                                     Append(log1, ToolEvent(CreateEventTool, arg, "raise",
                                                            "exception")))]
    /\ UNCHANGED <<sessions, registry, _STATE, journal, archivist>>

\* capture_entry, lines 321-359: the summary, then save_entry
ScribeCapture(s) ==
    LET f == call[s]
        raw_text == CaptureRawText(f.msg)
        log1 == Append(f.log, LlmEvent("ok"))
        saved(ts) == save_entry(journal, f.user, raw_text, "llm-text", ts)
    IN  /\ f.pc = "scribe_capture"
        /\ \/ /\ call' = [call EXCEPT ![s] =
                    Raise([f EXCEPT !.log = Append(f.log, LlmEvent("raise"))], "llm.generate")]
              /\ journal' = journal
           \/ \E ts \in ClockReads(journal) :
              /\ journal' = saved(ts).rows
              /\ call' = [call EXCEPT ![s] =
                    [f EXCEPT !.pc = AfterSpecialist(f),
                              !.log = Append(log1, Event("store", "save_entry", raw_text, "ok",
                                                         saved(ts).ret)),
                              !.result = WithToolsUsed(ScribeResult("log",
                                  [entry_id |-> saved(ts).ret, summary |-> "llm-text",
                                   tags |-> << "diary", "v1" >>]))]]
           \/ \* the insert fails: nothing is stored, the exception leaves the call
              /\ journal' = journal
              /\ call' = [call EXCEPT ![s] =
                    Raise([f EXCEPT !.log = Append(log1, Event("store", "save_entry", raw_text,
                                                               "raise", "exception"))],
                          "save_entry")]
        /\ UNCHANGED <<sessions, registry, _STATE, archivist, events>>

\* reflect without an Archivist, lines 383-401
ScribeReflect(s) ==
    LET f == call[s] IN
    /\ f.pc = "scribe_reflect"
    /\ \/ call' = [call EXCEPT ![s] =
              [f EXCEPT !.pc = AfterSpecialist(f), !.log = Append(f.log, LlmEvent("ok")),
                        !.result = WithToolsUsed(ScribeResult("reflect",
                                       [reflection |-> "llm-text"]))]]
       \/ call' = [call EXCEPT ![s] =
              Raise([f EXCEPT !.log = Append(f.log, LlmEvent("raise"))], "llm.generate")]
    /\ UNCHANGED <<sessions, registry, _STATE, journal, archivist, events>>

---------------------------------------------------------------------------
(* Archivist: src/agents/archivist.py *)

\* lines 29-49: the two journal tools, each absent, failing or returning
ArchivistGather(s) ==
    LET f == call[s]
        recent == get_recent_entries(journal, f.user, 15)
        found == search_entries(journal, f.user, f.msg, 15)
        Outcomes(tool) == IF tool \in registry THEN { "ok", "raise" } ELSE { "absent" }
        Entries(out, rows) == IF out = "ok" THEN rows ELSE << >>
        Logged(lg, tool, arg, out, rows) ==
            IF out = "absent" THEN lg
            ELSE Append(lg, ToolEvent(tool, arg, out, Entries(out, rows)))
    IN  /\ f.pc = "archivist_gather"
        /\ \E o1 \in Outcomes("memory.journal_recent"), o2 \in Outcomes("memory.journal_search") :
              call' = [call EXCEPT ![s] =
                 [f EXCEPT !.pc = "archivist_llm",
                           !.search_results = Entries(o2, found),
                           !.state = FreshDict(Entries(o1, recent)),
                           !.log = Logged(Logged(f.log, "memory.journal_recent",
                                                 [user_id |-> f.user], o1, recent),
                                          "memory.journal_search",
                                          [user_id |-> f.user, query |-> f.msg], o2, found)]]
        /\ UNCHANGED <<sessions, registry, _STATE, journal, archivist, events>>

\* lines 86-92, and Scribe.handle's lines 71-73 on the way back
ArchivistAnswer(s) ==
    LET f == call[s] IN
    /\ f.pc = "archivist_llm"
    /\ \/ call' = [call EXCEPT ![s] =
              [f EXCEPT !.pc = AfterSpecialist(f), !.log = Append(f.log, LlmEvent("ok")),
                        !.result = WithToolsUsed(ScribeResult("reflect",
                                       [reflection |-> "llm-text",
                                        recent_entries_used |-> f.state.val,
                                        search_results_used |-> f.search_results]))]]
       \/ call' = [call EXCEPT ![s] =
              Raise([f EXCEPT !.log = Append(f.log, LlmEvent("raise"))], "llm.generate")]
    /\ UNCHANGED <<sessions, registry, _STATE, journal, archivist, events>>

---------------------------------------------------------------------------
(* Graph and Hub: src/orchestration/graph.py, src/agents/majordomo.py *)

\* a dispatch that knows only the Router's enum values
Dispatch_enum_only(flow_value) ==
    IF flow_value = "knowledge" THEN "oracle"
    ELSE IF flow_value = "journal" THEN "scribe"
    ELSE IF flow_value = "home" THEN "sentinel"
    ELSE "oracle"

\* graph.py lines 65-85: the specialist run for a flow value
Dispatch(flow_value) ==
    IF flow_value = "knowledge" THEN "oracle"
    ELSE IF flow_value \in { "journal", "diary_capture", "diary_reflection" } THEN "scribe"
    ELSE IF flow_value = "home" \/ flow_value = "smart_home" THEN "sentinel"
    ELSE "oracle"

\* where the specialist's handle begins
FirstStep(agent) ==
    CASE agent = "oracle" -> "oracle_search"
      [] agent = "scribe" -> "scribe_start"
      [] agent = "sentinel" -> "sentinel_act"

\* lines 42-85: the trace, the context, the dispatch
GraphRun(s) ==
    LET f == call[s]
        intent == context_intent(f.flow)
        agent == Dispatch(f.flow)
    IN  /\ f.pc = "graph_run"
        /\ \/ call' = [call EXCEPT ![s] =
                 [f EXCEPT !.pc = FirstStep(agent),
                           !.ctx = get_dynamic_context(journal, _STATE, f.user, intent, f.msg),
                           !.agents = Append(f.agents, agent),
                           !.log = Append(f.log, HandleEvent(agent))]]
           \/ \* the read of the journal table fails
              /\ ReadsJournal(intent)
              /\ call' = [call EXCEPT ![s] = Raise(f, "get_dynamic_context")]
        /\ UNCHANGED <<sessions, registry, _STATE, journal, archivist, events>>

RECURSIVE AppendNew(_, _)
\* for t in tools_used: if t not in trace["tools"]: trace["tools"].append(t)
AppendNew(tools, tools_used) ==
    IF tools_used = << >> THEN tools
    ELSE AppendNew(IF \E i \in DOMAIN tools : tools[i] = Head(tools_used) THEN tools
                   ELSE Append(tools, Head(tools_used)),
                   Tail(tools_used))

\* lines 87-94
TraceTools(tools, result) ==
    LET tool_used == IF "tool_used" \in DOMAIN result THEN result.tool_used ELSE ""
        tools_used == IF "tools_used" \in DOMAIN result THEN result.tools_used ELSE << >>
    IN  AppendNew(IF tool_used # "" THEN Append(tools, tool_used) ELSE tools, tools_used)

\* lines 87-96: the specialist has returned; the trace's tools, and the return
GraphReturn(s) ==
    LET f == call[s] IN
    /\ f.pc = "graph_return"
    /\ call' = [call EXCEPT ![s] =
          [f EXCEPT !.pc = IF f.entry \in { "hub", "chat" } THEN "hub_reply" ELSE "returned",
                    !.tools = TraceTools(f.tools, f.result)]]
    /\ UNCHANGED <<sessions, registry, _STATE, journal, archivist, events>>

\* majordomo.py lines 43-68: the final phrasing
HubReply(s) ==
    LET f == call[s] IN
    /\ f.pc = "hub_reply"
    /\ \/ call' = [call EXCEPT ![s] =
              [f EXCEPT !.pc = IF f.entry = "chat" THEN "chat_append" ELSE "returned",
                        !.reply = "llm-text",
                        !.log = Append(f.log, LlmEvent("ok"))]]
       \/ call' = [call EXCEPT ![s] =
              Raise([f EXCEPT !.log = Append(f.log, LlmEvent("raise"))], "llm.generate")]
    /\ UNCHANGED <<sessions, registry, _STATE, journal, archivist, events>>

HubMessages ==
    { "Who was Ada Lovelace?", "What is the latest news on UK interest rates this year?",
      "Turn the lights off and lock the door.", "add this to my calendar",
      "Log: this is a diary entry", "I want to reflect on my journal", "hello there",
      "note: remember to breathe", "remind me to call mum",
      "Dear diary, I had a meeting today" }

\* majordomo.py lines 33-40: route, then Graph.run with the decision's flow
HubHandle(s) ==
    /\ call[s].pc = "idle"
    /\ \E u \in Users, m \in HubMessages :
          call' = [call EXCEPT ![s] =
              Began([NewCall("hub", "graph_run", u, m, route(m).flow)
                        EXCEPT !.decision = route(m)], _STATE)]
    /\ UNCHANGED <<sessions, registry, _STATE, journal, archivist, events>>

\* the Router's values, the legacy ones and strings that are no flow at all
FlowValues ==
    { "general", "knowledge", "journal", "home", "diary_capture", "diary_reflection",
      "smart_home", "unknown_flow", "" }

GraphMessages ==
    { "Turn the lights on and lock the door.", "Log: this is a diary entry",
      "Who was Ada Lovelace?" }

\* Graph.run called directly, with any flow value
GraphCall(s) ==
    /\ call[s].pc = "idle"
    /\ \E u \in Users, m \in GraphMessages, flow \in FlowValues :
          call' = [call EXCEPT ![s] = Began(NewCall("graph", "graph_run", u, m, flow), _STATE)]
    /\ UNCHANGED <<sessions, registry, _STATE, journal, archivist, events>>

\* the registry as defined, with one tool not registered, or patched with the name
\* Scribe looks up
Registries ==
    {RegistryAsDefined, RegistryAsDefined \cup {CreateEventTool}}
        \cup { RegistryAsDefined \ {t} :
                 t \in { "human.approve", "search.google", "smarthome.set_state",
                         "memory.journal_recent" } }

\* the journal before the request: empty, or one entry captured earlier
InitialJournals ==
    { << >>, save_entry(<< >>, "bryn", "this is a diary entry", "llm-text", 1).rows }

Init ==
    /\ registry \in Registries
    /\ _STATE = EmptyStore
    /\ journal \in InitialJournals
    /\ archivist \in BOOLEAN
    /\ events = << >>
    /\ sessions = NoSessions
    /\ call = [s \in Slots |-> Idle]

Next ==
    \/ HubHandle(1) \/ GraphCall(1) \/ GraphRun(1) \/ GraphReturn(1) \/ HubReply(1)
    \/ OracleSearch(1) \/ OracleFallback(1) \/ OracleAnswer(1)
    \/ SentinelAct(1) \/ SentinelNarrate(1)
    \/ ScribeStart(1) \/ ScribeExtract(1) \/ ScribeCapture(1) \/ ScribeReflect(1)
    \/ ArchivistGather(1) \/ ArchivistAnswer(1)

Spec == Init /\ [][Next]_vars

---------------------------------------------------------------------------
(* Graph.run: the dispatch *)

\* a Graph.run call (direct or from the Hub) that is past its context assembly
Dispatched ==
    /\ call[1].entry \in { "graph", "hub" }
    /\ call[1].pc \notin { "idle", "graph_run" }
    /\ call[1].error # "get_dynamic_context"

\* the specialists whose handle Graph.run invoked, in call order
Invoked == [i \in 1..Cardinality(HandleCalls(call[1].log)) |->
              call[1].log[CHOOSE j \in HandleCalls(call[1].log) :
                            Cardinality({ k \in HandleCalls(call[1].log) : k <= j }) = i].name]

JournalFlows == { "journal", "diary_capture", "diary_reflection" }

\* C5 as stated: for every flow value exactly one specialist's handle is invoked,
\* once: Scribe for the journal flows, Sentinel for the home flow ("home"), Oracle for
\* every other value.
C5_DispatchAsStated ==
    (call[1].entry \in { "graph", "hub" } /\ call[1].pc \in { "returned", "raised" }) =>
        Invoked = << IF call[1].flow \in JournalFlows THEN "scribe"
                     ELSE IF call[1].flow = "home" THEN "sentinel"
                     ELSE "oracle" >>

\* C5 (amended): once the context is assembled, Graph.run invokes exactly one
\* specialist's handle, once: Scribe for the journal flows, Sentinel for "home" and for
\* the legacy value "smart_home", Oracle for every other value; when the context read
\* fails no specialist is invoked.
C5_Dispatch ==
    /\ Dispatched =>
          /\ Invoked = << IF call[1].flow \in JournalFlows THEN "scribe"
                          ELSE IF call[1].flow \in { "home", "smart_home" } THEN "sentinel"
                          ELSE "oracle" >>
          /\ call[1].agents = Invoked
    /\ (call[1].entry \in { "graph", "hub" } /\ ~Dispatched) => Invoked = << >>

\* Graph.run given "smart_home" has run Sentinel, which changed the home state
C5_Witness ==
    /\ call[1].entry = "graph" /\ call[1].pc = "returned"
    /\ call[1].flow = "smart_home"
    /\ Invoked = << "sentinel" >>
    /\ SetStateCalls # {}
    /\ call[1].user \in DOMAIN _STATE

---------------------------------------------------------------------------
(* Oracle: what tool_used names, and search failures *)

\* the search calls of the Oracle call, by either tool
SearchCalls == GoogleCalls \cup WikiCalls
RaisedSearchCalls == { i \in SearchCalls : call[1].log[i].out = "raise" }
\* the call of the tool chosen first raised (the fallback is never the tool chosen first)
PrimaryRaised ==
    \E i \in RaisedSearchCalls :
        call[1].log[i].name = PrimaryTool(is_time_sensitive_query(call[1].msg))

\* what a search call left in search_results: its entries, or the synthetic entry
Produced(ev) == IF ev.out = "ok" THEN ev.ret ELSE SearchError

\* C11: in every outcome of Oracle.handle, tool_used names a tool that was invoked
\* during the call, and search_results is what that tool produced.
C11_ToolUsedIsSource ==
    OracleReturned =>
        \E i \in ToolCalls(call[1].log, call[1].result.tool_used) :
            call[1].result.search_results = Produced(call[1].log[i])

IsSearchErrorEntry(results) ==
    Len(results) = 1 /\ results[1].title = "Search error"

\* C12 as stated: whenever a search call raises, the call is not aborted, the error is
\* surfaced as exactly one synthetic 'Search error' entry in search_results, the model
\* is called exactly once and an answer is returned.
C12_EverySearchErrorSurfaced ==
    (call[1].entry = "oracle" /\ RaisedSearchCalls # {}) =>
        /\ call[1].pc = "raised" => call[1].error = "llm.generate"
        /\ OracleReturned =>
              /\ IsSearchErrorEntry(call[1].result.search_results)
              /\ Cardinality(LlmCalls(call[1].log)) = 1
              /\ call[1].result.answer = "llm-text"

\* C12 (amended): a raising search call never aborts the call; when the primary call
\* raises, search_results is exactly one synthetic 'Search error' entry and no fallback
\* is made; when the fallback call raises, the error is swallowed and search_results
\* stays empty; in both cases the model is called exactly once and, if that call
\* returns, an answer is returned.
C12_SearchErrorSoftened ==
    (call[1].entry = "oracle" /\ RaisedSearchCalls # {}) =>
        /\ call[1].pc = "raised" => call[1].error = "llm.generate"
        /\ PrimaryRaised =>
              /\ IsSearchErrorEntry(call[1].search_results)
              /\ Cardinality(SearchCalls) = 1
        /\ ~PrimaryRaised => call[1].search_results = << >>
        /\ OracleOver => Cardinality(LlmCalls(call[1].log)) = 1
        /\ OracleReturned =>
              /\ call[1].result.search_results = call[1].search_results
              /\ call[1].result.answer = "llm-text"

\* the primary search raised and the answer carries the synthetic entry
C12_Witness ==
    /\ OracleReturned /\ PrimaryRaised
    /\ IsSearchErrorEntry(call[1].result.search_results)
    /\ Cardinality(LlmCalls(call[1].log)) = 1

---------------------------------------------------------------------------
(* is_time_sensitive_query called on its own *)

\* the years RECENT_YEAR_PATTERN accepts
YearLo == 2010
YearHi == 2049

\* str(n) for a 4-digit n
YearText(n) ==
    LET D(k) == SubSeq(Digits, k + 1, k + 1)
    IN  D(n \div 1000) \o D((n \div 100) % 10) \o D((n \div 10) % 10) \o D(n % 10)

ClassifyPrefixes == { "", "in ", "x", "_", "1", "since (" }
ClassifyCores == { "2009", "2010", "2025", "2049", "2050", "1966", "20255" }
ClassifySuffixes == { "", ".", "s", "0", " olympics", "_", ")" }

\* the messages of test_is_time_sensitive_query, and years in and out of context
ClassifyMessages ==
    { "What is the latest news on UK interest rates?", "today's weather in London",
      "covid updates 2025", "Who won the NBA game last night?",
      "What was the final score of Lakers vs Celtics?", "Who was Ada Lovelace?",
      "Explain quantum mechanics", "WHAT HAPPENED LAST WEEK", "Tonight's plan",
      "Tell me about Edward Jenner", "the history of Rome" }
      \cup { p \o c \o x : p \in ClassifyPrefixes, c \in ClassifyCores, x \in ClassifySuffixes }

ClassifyCall(s) ==
    /\ call[s].pc = "classify"
    /\ call' = [call EXCEPT ![s] =
          [call[s] EXCEPT !.pc = "returned",
                          !.use_google = is_time_sensitive_query(call[s].msg)]]
    /\ UNCHANGED <<sessions, registry, _STATE, journal, archivist, events>>

InitClassify ==
    /\ registry = RegistryAsDefined
    /\ _STATE = EmptyStore
    /\ journal = << >>
    /\ archivist = TRUE
    /\ events = << >>
    /\ sessions = NoSessions
    /\ \E m \in ClassifyMessages :
          call = IdleExcept(1, NewCall("is_time_sensitive_query", "classify", "bryn", m, ""))

NextClassify == ClassifyCall(1)

SpecClassify == InitClassify /\ [][NextClassify]_vars

Classified == call[1].entry = "is_time_sensitive_query" /\ call[1].pc = "returned"

\* text holds `word` at position i, with no word character on either side
StandaloneAt(text, word, i) ==
    /\ i + Len(word) - 1 <= Len(text)
    /\ SubSeq(text, i, i + Len(word) - 1) = word
    /\ (i = 1 \/ ~IsWordChar(CharAt(text, i - 1)))
    /\ (i + Len(word) - 1 = Len(text) \/ ~IsWordChar(CharAt(text, i + Len(word))))

HasStandaloneYear(text) ==
    \E y \in YearLo..YearHi : \E i \in 1..Len(text) : StandaloneAt(text, YearText(y), i)

HasKeyword(text) ==
    \E kw \in TIME_SENSITIVE_KEYWORDS \cup relative_phrases \cup DOMAIN_KEYWORDS
                \cup SPORTS_RESULT_KEYWORDS : Contains(Lower(text), kw)

\* C13: is_time_sensitive_query(text) is true exactly when text contains a recency
\* keyword, a relative-time phrase, a time-varying domain word, a sports-result phrase
\* or a standalone 4-digit year in 2010..2049; it is true for 'What is the latest news
\* on UK interest rates?' and false for 'Who was Ada Lovelace?' and 'Explain quantum
\* mechanics'; a year outside 2010..2049 alone does not make it true.
C13_TimeSensitiveExactly ==
    Classified =>
        /\ call[1].use_google = (HasKeyword(call[1].msg) \/ HasStandaloneYear(call[1].msg))
        /\ call[1].msg = "What is the latest news on UK interest rates?" => call[1].use_google
        /\ call[1].msg \in { "Who was Ada Lovelace?", "Explain quantum mechanics" }
              => ~call[1].use_google
        /\ call[1].msg \in { "in 2009", "in 2050.", "1966", "since (2050)" } => ~call[1].use_google

\* a year of the range inside a longer number is not a year, one between brackets is
C13_Witness ==
    /\ Classified
    /\ \/ call[1].msg = "in 20255" /\ ~call[1].use_google
       \/ call[1].msg = "since (2049)" /\ call[1].use_google

---------------------------------------------------------------------------
(* The memory store called on its own: journal_store.py and state_cache.py *)

\* most rows the journal table holds
MaxRows == 2

\* the limits / top_k values tried
MaxLimit == 2

JournalTexts == { "Ärger at home" }
JournalQueries == { "Ärger", "HOME" }
MemoryPartials == { [lights |-> "on"] }

MemoryFrame(entry, user, text, result) ==
    [NewCall(entry, "returned", user, text, "") EXCEPT !.result = result]

\* save_entry(user_id, raw_text, summary, tags)
SaveEntryCall(s) ==
    /\ call[s].entry \in { "memory", "save_entry", "get_recent_entries", "search_entries",
                           "set_home_state", "get_home_state" }
    /\ Len(journal) < MaxRows
    /\ \E u \in Users, text \in JournalTexts, ts \in ClockReads(journal) :
          /\ journal' = save_entry(journal, u, text, "ok", ts).rows
          /\ call' = [call EXCEPT ![s] =
                MemoryFrame("save_entry", u, text,
                            [entry_id |-> save_entry(journal, u, text, "ok", ts).ret])]
    /\ UNCHANGED <<sessions, registry, _STATE, archivist, events>>

\* get_recent_entries(user_id, limit)
RecentEntriesCall(s) ==
    /\ call[s].entry \in { "memory", "save_entry", "get_recent_entries", "search_entries",
                           "set_home_state", "get_home_state" }
    /\ \E u \in Users, limit \in 1..MaxLimit :
          call' = [call EXCEPT ![s] =
              MemoryFrame("get_recent_entries", u, "",
                          [limit |-> limit, entries |-> get_recent_entries(journal, u, limit)])]
    /\ UNCHANGED <<sessions, registry, _STATE, journal, archivist, events>>

\* search_entries(user_id, query, top_k)
SearchEntriesCall(s) ==
    /\ call[s].entry \in { "memory", "save_entry", "get_recent_entries", "search_entries",
                           "set_home_state", "get_home_state" }
    /\ \E u \in Users, q \in JournalQueries, top_k \in 1..MaxLimit :
          call' = [call EXCEPT ![s] =
              MemoryFrame("search_entries", u, q,
                          [limit |-> top_k, entries |-> search_entries(journal, u, q, top_k)])]
    /\ UNCHANGED <<sessions, registry, _STATE, journal, archivist, events>>

\* set_home_state(user_id, new_state)
UpdateHomeStateCall(s) ==
    /\ call[s].entry \in { "memory", "save_entry", "get_recent_entries", "search_entries",
                           "set_home_state", "get_home_state" }
    /\ \E u \in Users, p \in MemoryPartials :
          /\ _STATE' = set_home_state(_STATE, u, p)
          /\ call' = [call EXCEPT ![s] = StoreFrame("set_home_state", u, p, NoDict)]
    /\ UNCHANGED <<sessions, registry, journal, archivist, events>>

\* get_home_state(user_id)
ReadHomeStateCall(s) ==
    /\ call[s].entry \in { "memory", "save_entry", "get_recent_entries", "search_entries",
                           "set_home_state", "get_home_state" }
    /\ \E u \in Users :
          call' = [call EXCEPT ![s] =
                      StoreFrame("get_home_state", u, EmptyDict, GetRef(_STATE, u))]
    /\ UNCHANGED <<sessions, registry, _STATE, journal, archivist, events>>

InitMemory ==
    /\ registry = RegistryAsDefined
    /\ _STATE = EmptyStore
    /\ journal = << >>
    /\ archivist = TRUE
    /\ events = << >>
    /\ sessions = NoSessions
    /\ call = IdleExcept(1, NewCall("memory", "start", "", "", ""))

NextMemory ==
    \/ SaveEntryCall(1) \/ RecentEntriesCall(1) \/ SearchEntriesCall(1)
    \/ UpdateHomeStateCall(1) \/ ReadHomeStateCall(1)

SpecMemory == InitMemory /\ [][NextMemory]_vars

\* what the three reads show for a user
MemoryView(rows, store, u) ==
    [ home |-> get_home_state(store, u),
      recent |-> [l \in 1..MaxLimit |-> get_recent_entries(rows, u, l)],
      found |-> [q \in JournalQueries |->
                    [k \in 1..MaxLimit |-> search_entries(rows, u, q, k)]] ]

\* C14: get_recent_entries(A) and search_entries(A, q) return only entries saved with
\* user_id A, and a set_home_state(A, .) or save_entry(A, ...) step leaves
\* get_home_state(B), get_recent_entries(B) and search_entries(B, q) as they were for
\* every other user B.
C14_UserPartition ==
    [][ LET f == call'[1] IN
        /\ f.entry \in { "get_recent_entries", "search_entries" } =>
              \A i \in DOMAIN f.result.entries : f.result.entries[i].user_id = f.user
        /\ f.entry \in { "save_entry", "set_home_state" } =>
              \A b \in Users \ {f.user} :
                  MemoryView(journal', _STATE', b) = MemoryView(journal, _STATE, b)
      ]_vars

\* a read for one user while the table holds a row of each user
C14_Witness ==
    /\ call[1].entry = "get_recent_entries"
    /\ call[1].result.limit = MaxLimit
    /\ Len(call[1].result.entries) = 1
    /\ \E i, j \in DOMAIN journal : journal[i].user_id # journal[j].user_id
    /\ DOMAIN _STATE # {}


\* where the row with this id stands in a result list, 0 when it is not there
PositionOf(entries, id) ==
    IF \E k \in DOMAIN entries : entries[k].id = id
    THEN CHOOSE k \in DOMAIN entries : entries[k].id = id
    ELSE 0

\* C15: two save_entry calls for one user with identical text give two distinct ids,
\* both rows are stored, and get_recent_entries returns both with the later-saved one
\* before the earlier-saved one.
C15_LaterSavedFirst ==
    \A i, j \in DOMAIN journal :
        (i < j /\ journal[i].user_id = journal[j].user_id
               /\ journal[i].raw_text = journal[j].raw_text) =>
            LET recent == get_recent_entries(journal, journal[j].user_id, Len(journal)) IN
            /\ journal[i].id # journal[j].id
            /\ PositionOf(recent, journal[i].id) > 0
            /\ PositionOf(recent, journal[j].id) > 0
            /\ PositionOf(recent, journal[j].id) < PositionOf(recent, journal[i].id)


---------------------------------------------------------------------------
(* Scribe.handle called on its own: src/agents/scribe.py lines 35-73 *)

ScribeMessages ==
    { "log: Ärger at home", "add this to my calendar", "what stood out lately?" }

JournalTools == { "memory.journal_recent", "memory.journal_search" }

\* the registry as defined or with the name Scribe looks up bound, less any of the
\* journal tools
ScribeRegistries ==
    { (RegistryAsDefined \cup plus) \ absent :
          plus \in SUBSET { CreateEventTool }, absent \in SUBSET JournalTools }

\* the journal before the call: empty, or one entry the user saved earlier
ScribeJournals(u) == { << >>, save_entry(<< >>, u, "Ärger at home", "llm-text", 1).rows }

InitScribe ==
    /\ registry \in ScribeRegistries
    /\ _STATE = EmptyStore
    /\ archivist \in BOOLEAN
    /\ events = << >>
    /\ sessions = NoSessions
    /\ \E m \in ScribeMessages, u \in Users :
          /\ journal \in ScribeJournals(u)
          /\ call = IdleExcept(1, NewCall("scribe", "scribe_start", u, m, ""))

NextScribe ==
    \/ ScribeStart(1) \/ ScribeExtract(1) \/ ScribeCapture(1) \/ ScribeReflect(1)
    \/ ArchivistGather(1) \/ ArchivistAnswer(1)

SpecScribe == InitScribe /\ [][NextScribe]_vars

ScribeReturned == call[1].entry = "scribe" /\ call[1].pc = "returned"

\* the strings looked for in a captured entry
CaptureQueries == { "Ärger", "home" }

HasId(entries, id) == \E k \in DOMAIN entries : entries[k].id = id
RowOf(rows, id) == rows[CHOOSE k \in DOMAIN rows : rows[k].id = id]

\* C16: after Scribe capture returns entry id e for user u (no entry of u is newer),
\* get_recent_entries(u, limit) contains e for every limit, search_entries(u, q)
\* contains e for every q that occurs in the entry's text, and the stored raw text is
\* the message without its leading "log:" / "log ".
C16_CaptureRoundTrip ==
    (ScribeReturned /\ call[1].mode = "log") =>
        LET e == call[1].result.entry_id
            u == call[1].user
            msg == call[1].msg
        IN  /\ HasId(journal, e)
            /\ \A limit \in 1..MaxLimit : HasId(get_recent_entries(journal, u, limit), e)
            /\ \A q \in CaptureQueries :
                  Contains(RowOf(journal, e).raw_text, q) =>
                      HasId(search_entries(journal, u, q, 10), e)
            /\ (StartsWith(msg, "log:") \/ StartsWith(msg, "log ")) =>
                  RowOf(journal, e).raw_text = Strip(SubSeq(msg, 5, Len(msg)))


---------------------------------------------------------------------------
(* Scribe's schedule mode *)

ScheduleReturned == ScribeReturned /\ call[1].mode = "schedule"
CalendarCalls == ToolCalls(call[1].log, CreateEventTool)

\* what the model answered to the extraction prompt, when it was asked
Extracted == call[1].log[CHOOSE i \in LlmCalls(call[1].log) : TRUE].ret
WasExtracted == \E i \in LlmCalls(call[1].log) : call[1].log[i].out = "ok"

\* the answer gives no object, or an object whose start is null or empty
NoUsableStart(raw) ==
    \/ _parse_event_json(raw).none
    \/ _parse_event_json(raw).obj.start_iso \in { "None", "" }

FailureNotes == { "no usable date/time", "no start time" }

\* C17: in schedule mode, when the model's output does not parse to an object or the
\* object has no start, the calendar tool is not invoked, no event exists, event_id is
\* null and the result carries a failure note.
C17_NoStartNoEvent ==
    (ScheduleReturned /\ WasExtracted /\ NoUsableStart(Extracted)) =>
        /\ CalendarCalls = {}
        /\ events = << >>
        /\ call[1].result.event_id = NoEventId
        /\ call[1].result.tools_used = << >>
        /\ call[1].result.note \in FailureNotes

\* an object was parsed but its start is null
C17_Witness ==
    /\ ScheduleReturned /\ WasExtracted
    /\ ~_parse_event_json(Extracted).none
    /\ _parse_event_json(Extracted).obj.start_iso = "None"
    /\ call[1].result.note = "no start time"


\* the calendar collaborator was invoked once, with the extracted title, start and end
\* (the end start + 1 hour when the object has none), and what it returned is reported
ScheduledAsExtracted(raw) ==
    LET spec == _parse_event_json(raw).obj
        end_iso == IF spec.end_iso \in { "None", "" } THEN PlusOneHour(spec.start_iso)
                   ELSE spec.end_iso
        title == IF spec.title \in { "None", "" } THEN call[1].msg ELSE spec.title
    IN  /\ Cardinality(CalendarCalls) = 1
        /\ \A i \in CalendarCalls :
              /\ call[1].log[i].arg.title = title
              /\ call[1].log[i].arg.start_iso = spec.start_iso
              /\ call[1].log[i].arg.end_iso = end_iso
              /\ call[1].log[i].out = "ok" =>
                    /\ call[1].result.tools_used = << CreateEventTool >>
                    /\ call[1].result.event_id = call[1].log[i].ret

\* C18: in schedule mode with the registry as src/tools/__init__.py defines it, the
\* extraction runs, and when its output parses to an object with a start the calendar
\* collaborator is invoked exactly once with the extracted title, start and end,
\* "calendar.create_event" is recorded in tools_used and the result carries the
\* returned event id.
C18_ScheduleAsDefined ==
    (ScheduleReturned /\ registry = RegistryAsDefined) =>
        /\ WasExtracted
        /\ ~NoUsableStart(Extracted) => ScheduledAsExtracted(Extracted)


---------------------------------------------------------------------------
(* Tool failures and absent tools *)

\* every name a specialist looks up in the registry
ToolNames == RegistryAsDefined \cup { CreateEventTool }

\* C19: no exception raised by a tool invoked through the registry escapes the
\* specialist's handle: the handle does not end in an exception that a tool raised.
C19_NoToolExceptionEscapes ==
    call[1].pc = "raised" => call[1].error \notin ToolNames


\* any one specialist called on its own, under any registry its specification allows
InitSpecialists == InitOracle \/ InitSentinel \/ InitScribe
NextSpecialists == NextOracle \/ NextSentinel \/ NextScribe
SpecSpecialists == InitSpecialists /\ [][NextSpecialists]_vars

\* something the handle called raised: the model, a registered tool or the store
CalleeRaised(log) == \E i \in DOMAIN log : log[i].out = "raise"

\* the tools this log shows invoked
Invocations(log) == { log[i].name : i \in { j \in DOMAIN log : log[j].kind = "tool" } }

\* C20: whatever tools are absent from the registry, a specialist's handle never
\* invokes an absent tool and raises only when something it did call raised; with the
\* model answering and nothing raising it returns: Oracle with no search tool answers
\* with no search results, Scribe without the calendar tool reports that it cannot
\* schedule, Sentinel without the smart-home tools reports the cached state, Archivist
\* without the journal tools uses empty lists.
C20_AbsentToolsTolerated ==
    LET f == call[1] IN
    /\ f.pc = "raised" => CalleeRaised(f.log)
    /\ Invocations(f.log) \subseteq registry
    /\ (f.pc = "returned" /\ f.entry = "oracle" /\ registry \cap SearchTools = {}) =>
          f.search_results = << >> /\ Cardinality(LlmCalls(f.log)) = 1
    /\ (f.pc = "returned" /\ f.entry = "scribe" /\ f.mode = "schedule"
            /\ CreateEventTool \notin registry) =>
          f.result.note = "calendar tool unavailable" /\ f.result.event_id = NoEventId
    /\ (f.pc = "returned" /\ f.entry = "sentinel"
            /\ registry \cap { "smarthome.set_state", "smarthome.get_state" } = {}) =>
          Deref(_STATE, f.state) = get_home_state(_STATE, f.user)
    /\ (f.pc = "returned" /\ f.entry = "scribe" /\ f.mode = "reflect" /\ archivist
            /\ registry \cap JournalTools = {}) =>
          /\ f.result.recent_entries_used = << >>
          /\ f.result.search_results_used = << >>

\* every search tool absent and Oracle answered
C20_Witness ==
    /\ call[1].pc = "returned" /\ call[1].entry = "oracle"
    /\ registry \cap SearchTools = {}
    /\ call[1].log # << >>


---------------------------------------------------------------------------
(* The Hub: what a request ends in *)

HubEnded == call[1].entry = "hub" /\ call[1].pc \in { "returned", "raised" }

\* C21: every call to the Hub's handle ends by returning a result with reply text for
\* the end user, also when a collaborator failed during the request.
C21_AlwaysSomeReply ==
    HubEnded => call[1].pc = "returned" /\ call[1].reply # ""

\* the calls in this log that raised and were not caught where they were made: a
\* model call, the journal insert, the approval tool
Uncaught(log) ==
    { i \in DOMAIN log :
        /\ log[i].out = "raise"
        /\ \/ log[i].kind \in { "llm", "store" }
           \/ log[i].kind = "tool" /\ log[i].name = "human.approve" }

\* C22: a model failure or other uncaught exception inside a specialist (before it has
\* a result) is caught
\* neither by the specialist nor by Graph.run nor by the Hub, and nothing is retried:
\* the failing call is the last thing the request did, the request has ended in that
\* exception, no final phrasing was asked for and there is no reply and no trace tools.
C22_FailurePropagates ==
    LET f == call[1] IN
    (f.entry = "hub" /\ Uncaught(f.log) # {} /\ DOMAIN f.result = {}) =>
        /\ Uncaught(f.log) = { Len(f.log) }
        /\ f.pc = "raised" /\ f.error # ""
        /\ f.reply = ""
        /\ f.tools = << >>

\* the model failed inside Sentinel, after the home state was written
C22_Witness ==
    /\ call[1].entry = "hub" /\ call[1].pc = "raised"
    /\ call[1].agents = << "sentinel" >>
    /\ call[1].log[Len(call[1].log)].kind = "llm"
    /\ SetStateCalls # {}


---------------------------------------------------------------------------
(* Graph.run: the trace *)

\* every specialist whose handle ran, Graph.run's and Scribe's delegate, in call order
HandlesRun(log) ==
    LET IsHandle(ev) == ev.kind \in { "handle", "delegate" }
        picked == SelectSeq(log, IsHandle)
    IN  [i \in DOMAIN picked |-> picked[i].name]

\* the names a specialist result reports in tool_used / tools_used
Reported(result) ==
    (IF "tool_used" \in DOMAIN result /\ result.tool_used # "" THEN { result.tool_used } ELSE {})
        \cup (IF "tools_used" \in DOMAIN result
              THEN { result.tools_used[i] : i \in DOMAIN result.tools_used } ELSE {})

---------------------------------------------------------------------------
(* Concurrent Sentinel requests on one event loop: a request runs without
   interruption from one await that suspends to the next; Sentinel.handle suspends
   only at its model call (the set-state and get-state coroutines never suspend) *)

ConcurrentMessages ==
    { "lights off", "Turn the lights on and lock the door.", "Unlock the front door" }

\* a request for Sentinel arrives
SentinelBegin(s) ==
    /\ call[s].pc = "idle"
    /\ \E m \in ConcurrentMessages :
          call' = [call EXCEPT ![s] =
                      Began(NewCall("sentinel", "sentinel_act", "bryn", m, ""), _STATE)]
    /\ UNCHANGED <<sessions, registry, _STATE, journal, archivist, events>>

InitSentinels ==
    /\ registry = RegistryAsDefined
    /\ _STATE = EmptyStore
    /\ journal = << >>
    /\ archivist = TRUE
    /\ events = << >>
    /\ sessions = NoSessions
    /\ call = [s \in Slots |-> Idle]

NextSentinels ==
    \E s \in Slots : SentinelBegin(s) \/ SentinelAct(s) \/ SentinelNarrate(s)

SpecSentinels == InitSentinels /\ [][NextSentinels]_vars

\* the set-state calls a request has made that went through
SetsDone(f) == { i \in ToolCalls(f.log, "smarthome.set_state") : f.log[i].out = "ok" }

\* the value the store shows for a key of the user's home state
StoredValue(store, k) ==
    IF k \in DOMAIN get_home_state(store, "bryn") THEN get_home_state(store, "bryn")[k]
    ELSE "missing"

\* C24: under any interleaving of Sentinel requests for one user, every key of the
\* stored home state holds the value of the last set-state call that included it: a
\* set-state call leaves each key it names at the value it gives and every other key
\* as it was, and nothing else changes the stored state.
C24_LastWriteWinsPerKey ==
    [][ \A k \in HomeKeys :
          LET writers == { s \in Slots : /\ SetsDone(call'[s]) # SetsDone(call[s])
                                         /\ k \in DOMAIN call'[s].new_state }
          IN  IF writers # {}
              THEN \A s \in writers : StoredValue(_STATE', k) = call'[s].new_state[k]
              ELSE StoredValue(_STATE', k) = StoredValue(_STATE, k)
      ]_vars

\* two requests that wrote different keys are both done and both writes are stored
C24_Witness ==
    /\ \A s \in Slots : call[s].pc = "returned" /\ SetsDone(call[s]) # {}
    /\ call[1].msg = "lights off" /\ call[2].msg = "Unlock the front door"
    /\ get_home_state(_STATE, "bryn") = [lights |-> "off", doors_locked |-> "unlocked"]

\* C26: the state Sentinel.handle returns for an approved update has every requested
\* key at the value this request set, whatever other requests for the user did while
\* this one was suspended at its model call.
C26_ReturnedStateIsSnapshot ==
    \A s \in Slots :
        (call[s].pc = "returned" /\ call[s].entry = "sentinel" /\ SetsDone(call[s]) # {}) =>
            \A k \in DOMAIN call[s].new_state :
                Deref(_STATE, call[s].result.state)[k] = call[s].new_state[k]


---------------------------------------------------------------------------
(* The Hub: what a failed request leaves behind *)

\* the journal entries this request saved
SavedEntries(log) == { i \in DOMAIN log : log[i].kind = "store" /\ log[i].out = "ok" }

\* C25: when Hub.handle raises, the request has changed no persistent state: the home
\* state is what it was when the request began, and the request has stored no journal
\* entry and created no calendar event.
C25_RaiseLeavesNoChange ==
    (call[1].entry = "hub" /\ call[1].pc = "raised") =>
        /\ _STATE = call[1].before
        /\ SavedEntries(call[1].log) = {}
        /\ events = << >>


---------------------------------------------------------------------------
(* Router and Scribe: the journal flow's messages as Scribe classifies them *)

\* messages that ask for a reflection, one around each phrase that makes the Router
\* choose the journal flow, and the Hub's own examples
ReflectionCandidates ==
    { "reflect on " \o p \o " lately" : p \in scheduling_phrases \cup journal_phrases }
        \cup { "reflect on what I " \o v \o " to my calendar" : v \in calendar_verbs }
        \cup { "what patterns do you see in my recent notes?", "reflect on my week" }
        \cup HubMessages

\* the message goes Hub -> Router -> Graph.run -> Scribe and Scribe takes it as this mode
HubReachesMode(m, mode) ==
    /\ Dispatch(route(m).flow) = "scribe"
    /\ _classify_mode(m) = mode

\* C27: with an Archivist configured there is a user message for which
\* Hub.handle_message (route, Graph.run, Scribe.handle) ends in Scribe's reflect mode,
\* so that the Archivist is invoked.
C27_ReflectionReachable ==
    archivist => \E m \in ReflectionCandidates : HubReachesMode(m, "reflect")


\* the Hub's request is in Scribe, past the classification
InScribe ==
    /\ call[1].entry = "hub"
    /\ call[1].agents = << "scribe" >>
    /\ call[1].mode # ""

\* C28: a message the Router sends to the journal flow by one of its scheduling rules
\* is handled by Scribe in schedule mode, and one it sends there by a diary / journal
\* phrase is handled in log mode and, when the request returns, stored as a journal
\* entry with no calendar call made.
C28_RouterAndScribeAgree ==
    InScribe =>
        /\ call[1].decision.reason \in { "calendar + scheduling verb",
                                         "scheduling/reminder intent" } =>
              call[1].mode = "schedule"
        /\ call[1].decision.reason = "journal/diary intent" =>
              /\ call[1].mode = "log"
              /\ ToolCalls(call[1].log, CreateEventTool) = {}
              /\ call[1].pc = "returned" => SavedEntries(call[1].log) # {}


---------------------------------------------------------------------------
(* The /chat endpoint: deployment/app.py *)

\* one turn of a session's history
Turn(role, content) == [role |-> role, content |-> content]

\* line 113: req.session_id or req.user_id (None and "" are both falsy)
SessionKey(session_id, user_id) == IF session_id # "" THEN session_id ELSE user_id

\* line 116: sessions.get(session_key, []): the stored list itself, or a new empty list
GetHistory(store, key) == IF key \in DOMAIN store THEN StoredRef(key) ELSE NoList

\* line 119
max_turns == 10

\* line 120: history[-max_turns:]
Recent(history) ==
    IF Len(history) <= max_turns THEN history
    ELSE SubSeq(history, Len(history) - max_turns + 1, Len(history))

\* m['role'].upper(), for the two roles the endpoint writes
UpperRole(role) == IF role = "user" THEN "USER" ELSE "ASSISTANT"

RECURSIVE JoinLines(_)
\* "\n".join(lines)
JoinLines(lines) ==
    IF lines = << >> THEN ""
    ELSE IF Len(lines) = 1 THEN lines[1]
    ELSE lines[1] \o "\n" \o JoinLines(Tail(lines))

\* lines 121-133: the text handed to Majordomo
MessageForMajordomo(history, message) ==
    LET recent == Recent(history)
        convo_lines == [i \in DOMAIN recent |->
                           UpperRole(recent[i].role) \o ": " \o recent[i].content]
    IN  IF recent # << >>
        THEN "Here is the recent conversation between the user and you:\n"
                 \o JoinLines(convo_lines) \o "\n\n" \o "New user message:\n" \o message
        ELSE message

ChatUsers == { "bryn" }
ChatSessionIds == { "", "bryn" }
ChatMessages == { "hello there", "lights off" }

\* lines 109-140 and majordomo.py lines 33-40: the history is read, the text composed,
\* Majordomo routes it and enters Graph.run
ChatBegin(s) ==
    /\ call[s].pc = "idle"
    /\ \E u \in ChatUsers, sid \in ChatSessionIds, m \in ChatMessages :
          LET session_key == SessionKey(sid, u)
              history == GetHistory(sessions, session_key)
              message_for_majordomo == MessageForMajordomo(Deref(sessions, history), m)
              decision == route(message_for_majordomo)
          IN  call' = [call EXCEPT ![s] =
                  Began([NewCall("chat", "graph_run", u, message_for_majordomo, decision.flow)
                            EXCEPT !.decision = decision, !.request = m,
                                   !.session_key = session_key, !.history = history],
                        _STATE)]
    /\ UNCHANGED <<sessions, registry, _STATE, journal, archivist, events>>

\* lines 160-180: Majordomo returned; the two turns are appended to `history` and the list
\* is stored under the key. A list that was stored under the key before stays with the
\* requests that hold it.
ChatAppend(s) ==
    LET f == call[s]
        key == f.session_key
        history == Deref(sessions, f.history)
                       \o << Turn("user", f.request), Turn("assistant", f.reply) >>
    IN  /\ f.pc = "chat_append"
        /\ sessions' = [k \in DOMAIN sessions \cup { key } |->
                           IF k = key THEN history ELSE sessions[k]]
        /\ call' = [t \in Slots |->
              IF t = s THEN [f EXCEPT !.pc = "returned", !.history = StoredRef(key)]
              ELSE IF ~f.history.ref /\ call[t].history.ref /\ call[t].history.user = key
                   THEN [call[t] EXCEPT !.history = FreshDict(sessions[key])]
                   ELSE call[t]]
        /\ UNCHANGED <<registry, _STATE, journal, archivist, events>>

\* the session store before the requests: empty, or one session with an earlier exchange
InitialSessions ==
    { NoSessions,
      [k \in { "bryn" } |-> << Turn("user", "lights off"), Turn("assistant", "llm-text") >>] }

InitChat ==
    /\ registry = RegistryAsDefined
    /\ _STATE = EmptyStore
    /\ journal = << >>
    /\ archivist = TRUE
    /\ events = << >>
    /\ sessions \in InitialSessions
    /\ call = [s \in Slots |-> Idle]

NextChat ==
    \E s \in Slots :
        \/ ChatBegin(s) \/ GraphRun(s) \/ GraphReturn(s) \/ HubReply(s) \/ ChatAppend(s)
        \/ OracleSearch(s) \/ OracleFallback(s) \/ OracleAnswer(s)
        \/ SentinelAct(s) \/ SentinelNarrate(s)

SpecChat == InitChat /\ [][NextChat]_vars

\* the /chat requests that completed
ChatsDone == { s \in Slots : call[s].entry = "chat" /\ call[s].pc = "returned" }

\* the stored history of request s's session
StoredHistory(s) ==
    IF call[s].session_key \in DOMAIN sessions THEN sessions[call[s].session_key] ELSE << >>

\* the user turn and the assistant turn of request s are at i and i + 1
TurnsAt(s, i) ==
    LET h == StoredHistory(s) IN
    /\ i + 1 <= Len(h)
    /\ h[i] = Turn("user", call[s].request)
    /\ h[i + 1] = Turn("assistant", call[s].reply)

\* C29: the stored history of a session holds the user turn and the assistant turn of
\* every /chat request on it that completed, each request's pair at a place of its own,
\* whatever the interleaving of the requests.
C29_NoTurnLost ==
    \A s \in ChatsDone :
        /\ \E i \in 1..Len(StoredHistory(s)) : TurnsAt(s, i)
        /\ \A t \in ChatsDone \ { s } :
              call[t].session_key = call[s].session_key =>
                  \E i, j \in 1..Len(StoredHistory(s)) :
                      i # j /\ TurnsAt(s, i) /\ TurnsAt(t, j)


\* the /chat requests under way or over
Chats == { s \in Slots : call[s].entry = "chat" }

\* C30: the flow the Router chooses for a /chat request is the flow it chooses for the
\* new user message alone, whatever the earlier turns of the session hold.
C30_FlowDependsOnMessageOnly ==
    \A s \in Chats : call[s].decision.flow = route(call[s].request).flow

=============================================================================
